---- MODULE Spec2Model ----
(***************************************************************************)
(* PreciseTransport (src/src/midi_generator/transport.py): the clock, the  *)
(* lock-protected event heap, the dispatcher thread, the worker pool and   *)
(* the client threads that call the public methods.                        *)
(*                                                                         *)
(* Time.  The clock is a monotonic integer `now`.  One clock unit stands   *)
(* for half a second, so the minute of the source (60_000_000_000 ns) is   *)
(* NANOSECONDS_PER_MINUTE = 120 units.  ns_per_beat is the float           *)
(* NANOSECONDS_PER_MINUTE / bpm; it is kept as that fraction and every     *)
(* int(...) of the source is a truncating division of exact products.      *)
(* A beat is the fraction beat / BeatDen.                                  *)
(***************************************************************************)
EXTENDS Integers, Sequences, FiniteSets, TLC

(***************************************************************************)
(* Bounds of the model.                                                    *)
(***************************************************************************)
MaxCalls == 3        \* schedule_event calls made in one run
MaxTime == 2
MaxBeatNum == 3      \* largest beat numerator a caller passes
BeatDen == 2         \* beats come in halves
MaxRaceCalls == 2    \* schedule_event calls made in one run with two client threads
MaxFaultCalls == 2   \* schedule_event calls made in one run with callbacks that raise or hang
MaxSeqCalls == 5     \* schedule_event calls the sequencer makes in one run
MaxSeqs == 1         \* sequences scheduled in one run
MaxInstSeqs == 3     \* sequences the instruments play in one run
NoteDur == 2         \* duration of the note of a sequence, in beats over BeatDen

NANOSECONDS_PER_MINUTE == 120
initial_bpm == 120

Bpms == {80, 120}
Callers == {"ctl", "aux"}
SeqThreads == {"ctl", "worker"}
Threads == Callers \cup SeqThreads
CallIds == 1..(IF MaxCalls > MaxSeqCalls THEN MaxCalls ELSE MaxSeqCalls)
SeqIds == 0..((IF MaxSeqs > MaxInstSeqs THEN MaxSeqs ELSE MaxInstSeqs) - 1)
Kinds == {"return", "raise", "hang", "slow"}

VARIABLES
    instruments,      \* InstrumentManager.instruments, by name: the configuration and
                      \* Instrument._active_sequences
    sink,             \* what the note player and the sequence player have been asked to do
    result,           \* the last instrument or manager call: what it was given and
                      \* what it returned
    clients,          \* the client threads of this run
    quota,            \* the schedule_event calls this run may make
    faults,           \* what the callbacks passed in this run may do when called
    lock,             \* self._lock: "free" or the thread that holds it
    kinds,            \* per callback: what it does when called
    pool_running,     \* callbacks a pool thread has entered and not left
    active_sequences, \* MIDISequencer.active_sequences, by sequence id
    next_sequence_id, \* MIDISequencer._next_sequence_id
    seqrun,           \* per thread: its position in a MIDISequencer method and its locals
    closures,         \* per callback the sequencer made: the values it closes over
    now,              \* time_get_time()
    bpm,              \* self.bpm; self._ns_per_beat = NANOSECONDS_PER_MINUTE / bpm
    is_playing,       \* self._is_playing
    current_beat,     \* self._current_beat, as the numerator over NANOSECONDS_PER_MINUTE
    start_time_ns,    \* self._start_time_ns
    stop_event,       \* self._stop_event
    events,           \* self._events, the heapq array
    next_event_id,    \* self._next_event_id
    thread_pool,      \* self._thread_pool is not None
    pool_pending,     \* events submitted to the pool whose callback has not run yet
    active_futures,   \* self._active_futures, by callback
    disp,             \* self._transport_thread: the dispatcher's position and locals
    sched,            \* per client thread: position in schedule_event and its locals
    ctl,              \* the control thread: position in start/stop/reset and their locals
    stop_beat,        \* the beat reached when stop() was last entered, as current_beat is kept; -1 after start() or reset()
    ncalls,           \* schedule_event calls begun so far; each call's callback is its number
    calls,            \* per schedule_event call: its arguments, returned id and what became of the event
    fired             \* per callback: the threads that invoked it, in order

vars == <<instruments, sink, result, clients, quota, faults, active_sequences, next_sequence_id, seqrun, closures, 
          lock, kinds, pool_running, now, bpm, is_playing, current_beat, start_time_ns, stop_event, events,
          next_event_id, thread_pool, pool_pending, active_futures, disp, sched,
          ctl, stop_beat, ncalls, calls, fired>>

(***************************************************************************)
(* int(x) for the fraction n / d, d > 0: truncation toward zero.           *)
(***************************************************************************)
Trunc(n, d) == IF n >= 0 THEN n \div d ELSE -((-n) \div d)

(***************************************************************************)
(* TimedEvent and its ordering.                                            *)
(***************************************************************************)
TimedEvent(ts, cb, id, conc) ==
    [timestamp_ns |-> ts, callback |-> cb, event_id |-> id, concurrent |-> conc]

\* the events compared by id
LtById(a, b) == a.event_id < b.event_id

Lt(a, b) == a.timestamp_ns < b.timestamp_ns

(***************************************************************************)
(* heapq on a 0-based array held in a 1-based sequence.                    *)
(***************************************************************************)
At(h, i) == h[i + 1]
Put(h, i, x) == [h EXCEPT ![i + 1] = x]

RECURSIVE SiftdownLoop(_, _, _, _)
SiftdownLoop(h, startpos, pos, newitem) ==
    IF pos > startpos
    THEN LET parentpos == (pos - 1) \div 2
             parent == At(h, parentpos)
         IN IF Lt(newitem, parent)
            THEN SiftdownLoop(Put(h, pos, parent), startpos, parentpos, newitem)
            ELSE Put(h, pos, newitem)
    ELSE Put(h, pos, newitem)

Siftdown(h, startpos, pos) == SiftdownLoop(h, startpos, pos, At(h, pos))

RECURSIVE SiftupLoop(_, _, _, _)
SiftupLoop(h, startpos, pos, newitem) ==
    LET endpos == Len(h)
        childpos == 2 * pos + 1
    IN IF childpos < endpos
       THEN LET rightpos == childpos + 1
                c == IF rightpos < endpos /\ ~Lt(At(h, childpos), At(h, rightpos))
                     THEN rightpos ELSE childpos
            IN SiftupLoop(Put(h, pos, At(h, c)), startpos, c, newitem)
       ELSE Siftdown(Put(h, pos, newitem), startpos, pos)

Siftup(h, pos) == SiftupLoop(h, pos, pos, At(h, pos))

heappush(h, item) == Siftdown(Append(h, item), 0, Len(h))

\* heappop returns <<item, heap>>
heappop(h) ==
    LET lastelt == h[Len(h)]
        rest == SubSeq(h, 1, Len(h) - 1)
    IN IF rest = <<>> THEN <<lastelt, rest>>
       ELSE <<rest[1], Siftup(Put(rest, 0, lastelt), 0)>>

RECURSIVE HeapifyFrom(_, _)
HeapifyFrom(h, i) == IF i < 0 THEN h ELSE HeapifyFrom(Siftup(h, i), i - 1)

heapify(h) == HeapifyFrom(h, (Len(h) \div 2) - 1)

(***************************************************************************)
(* __init__                                                                *)
(***************************************************************************)
IdleSched == [pc |-> "idle", base |-> 0, beat |-> 0, concurrent |-> TRUE, callback |-> 0,
              event_id |-> -1, timestamp_ns |-> 0]
IdleDisp(pc) == [pc |-> pc, events_to_execute |-> <<>>, idx |-> 1, wake |-> 0]
IdleCtl == [pc |-> "idle", op |-> "none", was_playing |-> FALSE]
NoCall == [st |-> "unused", id |-> -1, by |-> "none"]

Transport ==
    /\ now = 0
    /\ lock = "free"
    /\ kinds = [c \in CallIds |-> "return"]
    /\ pool_running = {}
    /\ bpm = initial_bpm
    /\ is_playing = FALSE
    /\ current_beat = 0
    /\ start_time_ns = 0
    /\ stop_event = FALSE
    /\ events = <<>>
    /\ next_event_id = 0
    /\ thread_pool = FALSE
    /\ pool_pending = {}
    /\ active_futures = {}
    /\ disp = IdleDisp("none")
    /\ sched = [t \in Threads |-> IdleSched]
    /\ ctl = IdleCtl
    /\ stop_beat = -1
    /\ ncalls = 0
    /\ calls = [c \in CallIds |-> NoCall]
    /\ fired = [c \in CallIds |-> <<>>]

(***************************************************************************)
(* MIDISequencer.__init__ (src/src/midi_generator/sequencer.py)            *)
(***************************************************************************)
NoSeq == [present |-> FALSE, notes |-> <<>>, loop |-> FALSE, current_iteration |-> 0, sequence_length |-> 0,
          runs |-> 0, stopped |-> -1, base |-> 0]
IdleSeq == [pc |-> "idle", op |-> "none", sid |-> 0, base |-> 0, beat |-> 0, note |-> 1,
            iter |-> 0, cb |-> 0, outcome |-> "none"]
NoClosure == [seq |-> -1, iter |-> 0, base |-> 0, beat |-> 0, note |-> 0]

Sequencer ==
    /\ active_sequences = [sid \in SeqIds |-> NoSeq]
    /\ next_sequence_id = 0
    /\ seqrun = [t \in SeqThreads |-> IdleSeq]
    /\ closures = [c \in CallIds |-> NoClosure]

\* one client thread: the control thread makes every call
(***************************************************************************)
(* InstrumentManager.__init__: no instrument; nothing has reached the note *)
(* player or the sequence player.                                          *)
(***************************************************************************)
Names == {"bass", "lead"}

NoInstrument == [present |-> FALSE, channel |-> 0, default_velocity |-> 0, transpose |-> 0,
                 active_sequences |-> {}]

\* the last sequence played, the stop_sequence calls per id, the last note call
NoSink == [played |-> <<>>, stopped |-> [sid \in SeqIds |-> 0], note |-> <<>>]

NoResult == [op |-> "none", value |-> "None"]

Instruments ==
    /\ instruments = [name \in Names |-> NoInstrument]
    /\ sink = NoSink
    /\ result = NoResult

Init ==
    /\ clients = {"ctl"}
    /\ quota = MaxCalls
    /\ faults = {"return"}
    /\ Transport
    /\ Sequencer
    /\ Instruments

\* two client threads call schedule_event
InitRace ==
    /\ clients = Callers
    /\ quota = MaxRaceCalls
    /\ faults = {"return"}
    /\ Transport
    /\ Sequencer
    /\ Instruments

\* one client thread; its callbacks may raise an Exception
InitRaise ==
    /\ clients = {"ctl"}
    /\ quota = MaxFaultCalls
    /\ faults = {"return", "raise"}
    /\ Transport
    /\ Sequencer
    /\ Instruments

\* one client thread; its callbacks may never return
InitHang ==
    /\ clients = {"ctl"}
    /\ quota = MaxFaultCalls
    /\ faults = {"return", "hang"}
    /\ Transport
    /\ Sequencer
    /\ Instruments

(***************************************************************************)
(* The clock.                                                              *)
(***************************************************************************)
Tick ==
    /\ now < MaxTime
    /\ now' = now + 1
    /\ UNCHANGED <<instruments, sink, result, clients, quota, faults, active_sequences, next_sequence_id, seqrun, closures, lock, kinds, pool_running, bpm, is_playing, current_beat, start_time_ns, stop_event, events,
                   next_event_id, thread_pool, pool_pending, active_futures, disp,
                   sched, ctl, stop_beat, ncalls, calls, fired>>

(***************************************************************************)
(* current_beat (the property), as the numerator over                      *)
(* NANOSECONDS_PER_MINUTE: elapsed_ns / ns_per_beat = elapsed_ns * bpm /   *)
(* NANOSECONDS_PER_MINUTE.                                                 *)
(***************************************************************************)
CurrentBeatProp(playing) ==
    IF ~playing THEN current_beat ELSE (now - start_time_ns) * bpm

\* callback() invoked on `thread`
Invoke(cb, thread) == [fired EXCEPT ![cb] = Append(@, thread)]

\* the ghost record of what became of the queued events in `evs`
Mark(c, evs, what) ==
    [k \in CallIds |->
        IF \E i \in 1..Len(evs) : evs[i].callback = k
        THEN [c[k] EXCEPT !.st = what] ELSE c[k]]

(***************************************************************************)
(* schedule_event / schedule_critical_event, on client thread t.           *)
(***************************************************************************)
Idle(t) == sched[t].pc = "idle" /\ (t = "ctl" => ctl.pc = "idle")

\* int(beat * ns_per_beat) for the beat base / NANOSECONDS_PER_MINUTE + beat / BeatDen:
\* a beat read from current_beat plus a beat the caller gives
BeatToNs(base, beat, b) == Trunc(base * BeatDen + beat * NANOSECONDS_PER_MINUTE, BeatDen * b)

\* the calls the run may still make
MayCall(t) == t \in clients /\ ncalls < quota

\* the test inverted
NotPlayingInverted(playing) == playing

\* line 308: the transport is not playing
NotPlaying(playing) == ~playing

\* lines 308-314: the call, the test of _is_playing, event_id = self._next_event_id;
\* the beat is base / NANOSECONDS_PER_MINUTE + beat / BeatDen
schedule_event(t, base, beat, conc, kind) ==
    /\ sched[t].pc = "idle"
    /\ MayCall(t)
    /\ ncalls' = ncalls + 1
    /\ IF NotPlaying(is_playing)
       THEN /\ calls' = [calls EXCEPT ![ncalls + 1] = [st |-> "rejected", id |-> -1, by |-> t]]
            /\ sched' = sched
            /\ kinds' = kinds
       ELSE /\ calls' = [calls EXCEPT ![ncalls + 1] = [st |-> "active", id |-> -1, by |-> t]]
            /\ kinds' = [kinds EXCEPT ![ncalls + 1] = kind]
            /\ sched' = [sched EXCEPT ![t] =
                            [pc |-> "stamp", base |-> base, beat |-> beat, concurrent |-> conc,
                             callback |-> ncalls + 1, event_id |-> next_event_id,
                             timestamp_ns |-> 0]]
    /\ UNCHANGED <<instruments, sink, result, clients, quota, faults, lock, pool_running, now, bpm, is_playing, current_beat,
                   start_time_ns, stop_event, events, next_event_id, thread_pool, pool_pending,
                   active_futures, disp, ctl, stop_beat, fired>>

\* a client thread calls schedule_event
SchedEnter(t, beat, conc, kind) ==
    /\ Idle(t)
    /\ schedule_event(t, 0, beat, conc, kind)
    /\ UNCHANGED <<active_sequences, next_sequence_id, seqrun, closures>>

\* only a timestamp strictly in the past counts
PastDueStrict(timestamp_ns, current_time_ns) == timestamp_ns < current_time_ns

\* line 321: the event is already past due
PastDue(timestamp_ns, current_time_ns) == timestamp_ns <= current_time_ns

\* callback(): what a callback of this kind does when called; a "slow" one is
\* for its caller a call that has not returned, until it returns
Outcome(kind) ==
    IF kind \in {"raise", "hang"} THEN kind ELSE IF kind = "slow" THEN "hang" ELSE "return"

\* lines 327-333, the try statement around callback(): what the call of a
\* callback of this kind ends in for the caller; "raise" is an Exception that
\* leaves the statement, "hang" a call that never returns
run_immediate(outcome) == IF outcome = "raise" THEN "return" ELSE outcome

\* a schedule_next callback run in the caller, lines 220-222: _schedule_iteration
\* starts again in the thread that was scheduling the callback
RunNextInline(t, cb) ==
    IF kinds[cb] = "schedule_next"
    THEN [seqrun EXCEPT ![t].pc = "iter", ![t].sid = closures[cb].seq,
                        ![t].base = closures[cb].base, ![t].beat = closures[cb].beat]
    ELSE seqrun

\* lines 315-333: self._next_event_id += 1, the timestamp, the clock read; a
\* past-due event runs here, in the caller, and its id is returned
SchedStamp(t) ==
    /\ sched[t].pc = "stamp"
    /\ next_event_id' = next_event_id + 1
    /\ LET timestamp_ns == start_time_ns + BeatToNs(sched[t].base, sched[t].beat, bpm)
       IN IF PastDue(timestamp_ns, now)
          THEN LET r == run_immediate(Outcome(kinds[sched[t].callback]))
               IN /\ fired' = Invoke(sched[t].callback, t)
                  /\ seqrun' = RunNextInline(t, sched[t].callback)
                  /\ calls' = IF r = "return"
                               THEN [calls EXCEPT ![sched[t].callback].st = "immediate",
                                                  ![sched[t].callback].id = sched[t].event_id]
                               ELSE IF r = "raise"
                                    THEN [calls EXCEPT ![sched[t].callback].st = "raised"]
                                    ELSE calls
                  /\ sched' = IF r = "hang" THEN [sched EXCEPT ![t].pc = "hung"]
                                            ELSE [sched EXCEPT ![t] = IdleSched]
          ELSE /\ sched' = [sched EXCEPT ![t].pc = "push", ![t].timestamp_ns = timestamp_ns]
               /\ UNCHANGED <<fired, calls, seqrun>>
    /\ UNCHANGED <<instruments, sink, result, clients, quota, faults, active_sequences, next_sequence_id, closures, lock, kinds, pool_running, now, bpm, is_playing, current_beat, start_time_ns, stop_event, events,
                   thread_pool, pool_pending, active_futures, disp,
                   ctl, stop_beat, ncalls>>

\* the lock still held when the block is left
LockKept(thread) == thread

\* the lock when `thread` leaves a `with self._lock:` block
LockAfter(thread) == "free"

\* lines 335-353: push under the lock, return event_id
SchedPush(t) ==
    /\ sched[t].pc = "push"
    /\ lock = "free"
    /\ lock' = LockAfter(t)
    /\ events' = heappush(events, TimedEvent(sched[t].timestamp_ns, sched[t].callback,
                                             sched[t].event_id, sched[t].concurrent))
    /\ calls' = [calls EXCEPT ![sched[t].callback].st = "queued",
                              ![sched[t].callback].id = sched[t].event_id]
    /\ sched' = [sched EXCEPT ![t] = IdleSched]
    /\ UNCHANGED <<instruments, sink, result, clients, quota, faults, active_sequences, next_sequence_id, seqrun, closures, kinds, pool_running, now, bpm, is_playing, current_beat, start_time_ns, stop_event,
                   next_event_id, thread_pool, pool_pending, active_futures, disp,
                   ctl, stop_beat, ncalls, fired>>

(***************************************************************************)
(* The dispatcher thread: _process_events.                                 *)
(***************************************************************************)
RECURSIVE CollectLoop(_, _, _)
CollectLoop(h, now_ns, acc) ==
    IF h # <<>> /\ h[1].timestamp_ns <= now_ns
    THEN LET r == heappop(h) IN CollectLoop(r[2], now_ns, Append(acc, r[1]))
    ELSE <<acc, h>>

\* the ready events read and left in the heap
collect_and_keep(h, now_ns) == <<CollectLoop(h, now_ns, <<>>)[1], h>>

\* _collect_ready_events returns <<events_to_execute, the heap left>>
collect_ready_events(h, now_ns) == CollectLoop(h, now_ns, <<>>)

\* _wait_for_next_event: the time to wake at, from the head of the heap
wake_time(h, t) ==
    IF h # <<>> /\ h[1].timestamp_ns - t > 0 THEN h[1].timestamp_ns ELSE t

\* lines 150-154: the dispatcher after the batch: _cleanup_completed_futures, the
\* peek under the lock, and the wait if the head of the heap is in the future
AfterBatch(h) ==
    IF wake_time(h, now) > now
    THEN [IdleDisp("wait") EXCEPT !.wake = wake_time(h, now)]
    ELSE IdleDisp("loop")

\* lines 141-143: the loop test, the clock read, the drain under the lock;
\* with nothing to execute, the rest of the iteration
DispLoop ==
    /\ disp.pc = "loop"
    /\ IF stop_event
       THEN /\ disp' = IdleDisp("done")
            /\ UNCHANGED <<events, calls, active_futures, lock>>
       ELSE LET r == collect_ready_events(events, now)
            IN /\ lock = "free"
               /\ lock' = LockAfter("dispatcher")
               /\ events' = r[2]
               /\ calls' = Mark(calls, r[1], "drained")
               /\ IF r[1] = <<>>
                  THEN /\ disp' = AfterBatch(r[2])
                       /\ active_futures' = active_futures \cap (pool_pending \cup pool_running)
                  ELSE /\ disp' = [disp EXCEPT !.pc = "exec", !.events_to_execute = r[1], !.idx = 1]
                       /\ active_futures' = active_futures
    /\ UNCHANGED <<instruments, sink, result, clients, quota, faults, active_sequences, next_sequence_id, seqrun, closures, kinds, pool_running, now, bpm, is_playing, current_beat, start_time_ns, stop_event,
                   next_event_id, thread_pool, pool_pending,
                   sched, ctl, stop_beat, ncalls, fired>>

\* the Exception let through
NoHandler(outcome) == outcome

\* _execute_callback_safe, lines 280-285: what the call of a callback of this
\* kind ends in for the thread that runs it; "raise" is an Exception that
\* leaves the method, "hang" a call that never returns
execute_callback_safe(outcome) == IF outcome = "raise" THEN "return" ELSE outcome

\* _execute_event_callback: the worker pool, or inline in the dispatcher
execute_in_pool(event) == event.concurrent /\ thread_pool

\* lines 146-148: one event of the batch
DispExec ==
    /\ disp.pc = "exec"
    /\ disp.idx <= Len(disp.events_to_execute)
    /\ LET event == disp.events_to_execute[disp.idx]
       IN IF execute_in_pool(event)
          THEN /\ pool_pending' = pool_pending \cup {event.callback}
               /\ active_futures' = active_futures \cup {event.callback}
               /\ fired' = fired
               /\ disp' = [disp EXCEPT !.idx = @ + 1]
          ELSE LET r == execute_callback_safe(Outcome(kinds[event.callback]))
               IN /\ fired' = Invoke(event.callback, "dispatcher")
                  /\ disp' = IF r = "return" THEN [disp EXCEPT !.idx = @ + 1]
                              ELSE IF r = "raise" THEN IdleDisp("crashed")
                              ELSE [disp EXCEPT !.pc = "hung"]
                  /\ UNCHANGED <<pool_pending, active_futures>>
    /\ UNCHANGED <<instruments, sink, result, clients, quota, faults, active_sequences, next_sequence_id, seqrun, closures, lock, kinds, pool_running, now, bpm, is_playing, current_beat, start_time_ns, stop_event, events,
                   next_event_id, thread_pool, sched, ctl, stop_beat, ncalls, calls>>

\* lines 150-154, after the last event of the batch
DispPeek ==
    /\ disp.pc = "exec"
    /\ disp.idx > Len(disp.events_to_execute)
    /\ lock = "free"
    /\ lock' = LockAfter("dispatcher")
    /\ active_futures' = active_futures \cap (pool_pending \cup pool_running)
    /\ disp' = AfterBatch(events)
    /\ UNCHANGED <<instruments, sink, result, clients, quota, faults, active_sequences, next_sequence_id, seqrun, closures, kinds, pool_running, now, bpm, is_playing, current_beat, start_time_ns, stop_event, events,
                   next_event_id, thread_pool, pool_pending,
                   sched, ctl, stop_beat, ncalls, calls, fired>>

\* _perform_wait / _precise_wait_until returns
DispWake ==
    /\ disp.pc = "wait"
    /\ now >= disp.wake
    /\ disp' = IdleDisp("loop")
    /\ UNCHANGED <<instruments, sink, result, clients, quota, faults, active_sequences, next_sequence_id, seqrun, closures, lock, kinds, pool_running, now, bpm, is_playing, current_beat, start_time_ns, stop_event, events,
                   next_event_id, thread_pool, pool_pending, active_futures,
                   sched, ctl, stop_beat, ncalls, calls, fired>>

\* a pool thread runs _execute_callback_safe for a submitted event; a
\* schedule_next callback, lines 220-222, starts _schedule_iteration there
WorkerRun(cb) ==
    /\ cb \in pool_pending
    /\ pool_pending' = pool_pending \ {cb}
    /\ fired' = Invoke(cb, "worker")
    /\ IF kinds[cb] = "schedule_next"
       THEN /\ seqrun["worker"].pc = "idle"
            /\ seqrun' = [seqrun EXCEPT !["worker"] =
                             [pc |-> "iter", op |-> "schedule_next", sid |-> closures[cb].seq,
                              base |-> closures[cb].base, beat |-> closures[cb].beat,
                              note |-> 1, iter |-> 0, cb |-> cb, outcome |-> "none"]]
            /\ pool_running' = pool_running \cup {cb}
       ELSE /\ seqrun' = seqrun
            /\ pool_running' = IF execute_callback_safe(Outcome(kinds[cb])) = "hang"
                               THEN pool_running \cup {cb} ELSE pool_running
    /\ UNCHANGED <<instruments, sink, result, clients, quota, faults, active_sequences, next_sequence_id, closures, lock, kinds, now, bpm, is_playing, current_beat, start_time_ns, stop_event, events,
                   next_event_id, thread_pool, active_futures, disp,
                   sched, ctl, stop_beat, ncalls, calls>>

(***************************************************************************)
(* The control thread: start, stop, reset, set_tempo, remove_event.        *)
(***************************************************************************)
CtlFree == ctl.pc = "idle" /\ sched["ctl"].pc = "idle" /\ seqrun["ctl"].pc = "idle"

\* start(), lines 432-437: the test of _is_playing, then _is_playing = True
\* a start() that never finds the transport playing
AlreadyPlayingNever(playing) == FALSE

\* start(), line 432: the transport is playing already
AlreadyPlaying(playing) == playing

StartEnter(op) ==
    IF AlreadyPlaying(is_playing)
    THEN /\ ctl' = IdleCtl
         /\ UNCHANGED <<is_playing, stop_beat>>
    ELSE /\ is_playing' = TRUE
         /\ stop_beat' = -1
         /\ ctl' = [ctl EXCEPT !.pc = "start", !.op = op]

Start ==
    /\ CtlFree
    /\ StartEnter("start")
    /\ UNCHANGED <<instruments, sink, result, clients, quota, faults, active_sequences, next_sequence_id, seqrun, closures, lock, kinds, pool_running, now, bpm, current_beat, start_time_ns, stop_event, events,
                   next_event_id, thread_pool, pool_pending, active_futures, disp,
                   sched, ncalls, calls, fired>>

\* start(), lines 438-453: start time, stop flag, worker pool, dispatcher thread
StartRun ==
    /\ ctl.pc = "start"
    /\ start_time_ns' = now
    /\ stop_event' = FALSE
    /\ thread_pool' = TRUE
    /\ disp' = IdleDisp("loop")
    /\ ctl' = IdleCtl
    /\ UNCHANGED <<instruments, sink, result, clients, quota, faults, active_sequences, next_sequence_id, seqrun, closures, lock, kinds, pool_running, now, bpm, is_playing, current_beat, events, next_event_id,
                   pool_pending, active_futures, sched, stop_beat, ncalls, calls, fired>>

\* stop(), lines 457-463: the test of _is_playing, then the two flags
StopEnter(op) ==
    IF ~is_playing
    THEN /\ ctl' = IdleCtl
         /\ UNCHANGED <<is_playing, stop_event, stop_beat>>
    ELSE /\ is_playing' = FALSE
         /\ stop_event' = TRUE
         /\ stop_beat' = CurrentBeatProp(TRUE)
         /\ ctl' = [pc |-> "stop_join", op |-> op, was_playing |-> (op = "reset")]

Stop ==
    /\ CtlFree
    /\ StopEnter("stop")
    /\ UNCHANGED <<instruments, sink, result, clients, quota, faults, active_sequences, next_sequence_id, seqrun, closures, lock, kinds, pool_running, now, bpm, current_beat, start_time_ns, events,
                   next_event_id, thread_pool, pool_pending, active_futures, disp,
                   sched, ncalls, calls, fired>>

\* stop(), lines 465-468: join the dispatcher thread
StopJoin ==
    /\ ctl.pc = "stop_join"
    /\ disp.pc \in {"none", "done", "crashed"}
    /\ ctl' = [ctl EXCEPT !.pc = "stop_futures"]
    /\ UNCHANGED <<instruments, sink, result, clients, quota, faults, active_sequences, next_sequence_id, seqrun, closures, lock, kinds, pool_running, now, bpm, is_playing, current_beat, start_time_ns, stop_event, events,
                   next_event_id, thread_pool, pool_pending, active_futures, disp,
                   sched, stop_beat, ncalls, calls, fired>>

\* stop(), lines 477-481: future.result(timeout=1.0) for each active future; each
\* call returns when its callback has returned or when the second is over, and
\* what it raises is caught, so the loop always ends
StopFutures ==
    /\ ctl.pc = "stop_futures"
    /\ ctl' = [ctl EXCEPT !.pc = "stop_pool"]
    /\ UNCHANGED <<instruments, sink, result, clients, quota, faults, active_sequences, next_sequence_id, seqrun, closures, lock, kinds, pool_running, now, bpm, is_playing, current_beat, start_time_ns, stop_event, events,
                   next_event_id, thread_pool, pool_pending, active_futures, disp,
                   sched, stop_beat, ncalls, calls, fired>>

\* stop(), lines 483-489: shutdown(wait=True) returns when every submitted
\* callback has returned; then the pool is dropped and the beat is snapshot
StopPool ==
    /\ ctl.pc = "stop_pool"
    /\ thread_pool => (pool_pending = {} /\ pool_running = {})
    /\ thread_pool' = FALSE
    /\ active_futures' = IF thread_pool THEN {} ELSE active_futures
    /\ current_beat' = CurrentBeatProp(is_playing)
    /\ ctl' = [ctl EXCEPT !.pc = "stop_clear"]
    /\ UNCHANGED <<instruments, sink, result, clients, quota, faults, active_sequences, next_sequence_id, seqrun, closures, lock, kinds, pool_running, now, bpm, is_playing, start_time_ns, stop_event, events,
                   next_event_id, pool_pending, disp,
                   sched, stop_beat, ncalls, calls, fired>>

\* the queue left as it is
NotCleared(h) == h

\* stop(), line 494: the queue after stop()
Cleared(h) == <<>>

\* stop(), lines 491-495: clear the queue under the lock; stop() returns
StopClear ==
    /\ ctl.pc = "stop_clear"
    /\ lock = "free"
    /\ lock' = LockAfter("ctl")
    /\ events' = Cleared(events)
    /\ calls' = Mark(calls, events, "cleared")
    /\ ctl' = IF ctl.op = "reset" THEN [ctl EXCEPT !.pc = "reset_zero"] ELSE IdleCtl
    /\ UNCHANGED <<instruments, sink, result, clients, quota, faults, active_sequences, next_sequence_id, seqrun, closures, kinds, pool_running, now, bpm, is_playing, current_beat, start_time_ns, stop_event,
                   next_event_id, thread_pool, pool_pending, active_futures, disp,
                   sched, stop_beat, ncalls, fired>>

\* reset(), lines 500-503: was_playing, and stop() if it was; lines 504-505 if not
Reset ==
    /\ CtlFree
    /\ IF is_playing
       THEN /\ StopEnter("reset")
            /\ current_beat' = current_beat
       ELSE /\ current_beat' = 0
            /\ stop_beat' = -1
            /\ ctl' = IdleCtl
            /\ UNCHANGED <<is_playing, stop_event>>
    /\ UNCHANGED <<instruments, sink, result, clients, quota, faults, active_sequences, next_sequence_id, seqrun, closures, lock, kinds, pool_running, now, bpm, start_time_ns, events,
                   next_event_id, thread_pool, pool_pending, active_futures, disp,
                   sched, ncalls, calls, fired>>

\* a reset() that never starts the transport again
RestartNever(was_playing) == FALSE

\* reset(), line 506: start() again if the transport was playing
Restart(was_playing) == was_playing

\* reset(), lines 504-508: zero the beat, then start() if it was playing
ResetZero ==
    /\ ctl.pc = "reset_zero"
    /\ current_beat' = 0
    /\ IF Restart(ctl.was_playing)
       THEN StartEnter("reset")
       ELSE /\ ctl' = IdleCtl
            /\ stop_beat' = -1
            /\ is_playing' = is_playing
    /\ UNCHANGED <<instruments, sink, result, clients, quota, faults, active_sequences, next_sequence_id, seqrun, closures, lock, kinds, pool_running, now, bpm, start_time_ns, stop_event, events,
                   next_event_id, thread_pool, pool_pending, active_futures, disp,
                   sched, ncalls, calls, fired>>

\* the two tempos exchanged
RescaleInverted(ts, start, old_bpm, new_bpm) == start + Trunc((ts - start) * new_bpm, old_bpm)

\* set_tempo, lines 407-412: the new timestamp of a pending event.
\* beat_position * new ns_per_beat = (ts - start) * old_bpm / new_bpm
Rescale(ts, start, old_bpm, new_bpm) == start + Trunc((ts - start) * old_bpm, new_bpm)

\* set_tempo, line 405: the events the loop reschedules
IsFuture(event, now_ns) == event.timestamp_ns > now_ns

\* set_tempo, lines 413-417: the event pushed in place of the old one
Rescheduled(event, old_bpm, new_bpm) ==
    TimedEvent(Rescale(event.timestamp_ns, start_time_ns, old_bpm, new_bpm),
               event.callback, event.event_id, TRUE)

\* set_tempo, lines 397-419: rebuild the heap
RECURSIVE RescheduleLoop(_, _, _, _, _, _)
RescheduleLoop(old_events, i, acc, now_ns, old_bpm, new_bpm) ==
    IF i > Len(old_events) THEN acc
    ELSE IF IsFuture(old_events[i], now_ns)
         THEN RescheduleLoop(old_events, i + 1,
                             heappush(acc, Rescheduled(old_events[i], old_bpm, new_bpm)),
                             now_ns, old_bpm, new_bpm)
         ELSE RescheduleLoop(old_events, i + 1, acc, now_ns, old_bpm, new_bpm)

SetTempo(b) ==
    /\ CtlFree
    /\ lock = "free"
    /\ lock' = LockAfter("ctl")
    /\ bpm' = b
    /\ IF is_playing
       THEN /\ events' = RescheduleLoop(events, 1, <<>>, now, bpm, b)
            /\ calls' = Mark(Mark(calls, SelectSeq(events, LAMBDA e : IsFuture(e, now)), "rescheduled"),
                             SelectSeq(events, LAMBDA e : ~IsFuture(e, now)), "dropped")
       ELSE UNCHANGED <<events, calls>>
    /\ UNCHANGED <<instruments, sink, result, clients, quota, faults, active_sequences, next_sequence_id, seqrun, closures, kinds, pool_running, now, is_playing, current_beat, start_time_ns, stop_event,
                   next_event_id, thread_pool, pool_pending, active_futures, disp,
                   sched, ctl, stop_beat, ncalls, fired>>

\* the events with a larger id kept
KeptAbove(h, event_id) == SelectSeq(h, LAMBDA e : e.event_id > event_id)

\* remove_event, line 365: the events kept
Kept(h, event_id) == SelectSeq(h, LAMBDA e : e.event_id # event_id)

RemoveEvent(event_id) ==
    /\ CtlFree
    /\ lock = "free"
    /\ lock' = LockAfter("ctl")
    /\ events' = heapify(Kept(events, event_id))
    /\ calls' = Mark(calls, SelectSeq(events, LAMBDA e : e.event_id = event_id), "removed")
    /\ UNCHANGED <<instruments, sink, result, clients, quota, faults, active_sequences, next_sequence_id, seqrun, closures, kinds, pool_running, now, bpm, is_playing, current_beat, start_time_ns, stop_event,
                   next_event_id, thread_pool, pool_pending, active_futures, disp,
                   sched, ctl, stop_beat, ncalls, fired>>

(***************************************************************************)
(* The specification.                                                      *)
(***************************************************************************)
Next ==
    \/ Tick
    \/ \E t \in Callers, beat \in 0..MaxBeatNum, conc \in BOOLEAN, kind \in faults :
          SchedEnter(t, beat, conc, kind)
    \/ \E t \in Callers : SchedStamp(t)
    \/ \E t \in Callers : SchedPush(t)
    \/ DispLoop
    \/ DispExec
    \/ DispPeek
    \/ DispWake
    \/ \E cb \in CallIds : WorkerRun(cb)
    \/ Start
    \/ StartRun
    \/ Stop
    \/ StopJoin
    \/ StopFutures
    \/ StopPool
    \/ StopClear
    \/ Reset
    \/ ResetZero
    \/ \E b \in Bpms : SetTempo(b)
    \/ \E id \in 0..(MaxCalls - 1) : RemoveEvent(id)

Spec == Init /\ [][Next]_vars

SpecRace == InitRace /\ [][Next]_vars

\* every thread that can take a step is scheduled again: the dispatcher thread,
\* the pool threads, the thread inside stop(), and the clock
Fairness ==
    /\ WF_vars(Tick)
    /\ WF_vars(DispLoop)
    /\ WF_vars(DispExec)
    /\ WF_vars(DispPeek)
    /\ WF_vars(DispWake)
    /\ WF_vars(\E cb \in CallIds : WorkerRun(cb))
    /\ WF_vars(StopJoin)
    /\ WF_vars(StopFutures)
    /\ WF_vars(StopPool)
    /\ WF_vars(StopClear)

SpecRaise == InitRaise /\ [][Next]_vars /\ Fairness

SpecHang == InitHang /\ [][Next]_vars /\ Fairness


\* a transport that keeps running: the client schedules events that are due
\* within the run and changes the tempo; no stop, no remove_event
NextLive ==
    \/ Tick
    \/ Start
    \/ StartRun
    \/ \E beat \in {0, BeatDen}, conc \in BOOLEAN : SchedEnter("ctl", beat, conc, "return")
    \/ SchedStamp("ctl")
    \/ SchedPush("ctl")
    \/ DispLoop
    \/ DispExec
    \/ DispPeek
    \/ DispWake
    \/ \E cb \in CallIds : WorkerRun(cb)
    \/ \E b \in {initial_bpm, initial_bpm \div 2} : SetTempo(b)

\* the clock, the dispatcher thread and the pool threads keep running
FairDispatch ==
    /\ WF_vars(Tick)
    /\ WF_vars(DispLoop)
    /\ WF_vars(DispExec)
    /\ WF_vars(DispPeek)
    /\ WF_vars(DispWake)
    /\ WF_vars(\E cb \in CallIds : WorkerRun(cb))
    /\ WF_vars(SchedStamp("ctl"))
    /\ WF_vars(SchedPush("ctl"))

SpecLive == Init /\ [][NextLive]_vars /\ FairDispatch

(***************************************************************************)
(* Callbacks that take time: the call of a "slow" callback is in progress  *)
(* until it returns, in the dispatcher or in the thread that scheduled a   *)
(* past-due event.                                                         *)
(***************************************************************************)
\* schedule_event, lines 327-333: callback() returns to the caller, which
\* returns the event id
SchedReturn(t) ==
    /\ sched[t].pc = "hung"
    /\ kinds[sched[t].callback] = "slow"
    /\ calls' = [calls EXCEPT ![sched[t].callback].st = "immediate",
                              ![sched[t].callback].id = sched[t].event_id]
    /\ sched' = [sched EXCEPT ![t] = IdleSched]
    /\ UNCHANGED <<instruments, sink, result, clients, quota, faults, active_sequences,
                   next_sequence_id, seqrun, closures, lock, kinds, pool_running, now, bpm,
                   is_playing, current_beat, start_time_ns, stop_event, events, next_event_id,
                   thread_pool, pool_pending, active_futures, disp, ctl, stop_beat, ncalls,
                   fired>>

\* _execute_callback_safe, lines 280-285: event.callback() returns to the
\* dispatcher, which goes on with its batch
DispReturn ==
    /\ disp.pc = "hung"
    /\ kinds[disp.events_to_execute[disp.idx].callback] = "slow"
    /\ disp' = [disp EXCEPT !.pc = "exec", !.idx = @ + 1]
    /\ UNCHANGED <<instruments, sink, result, clients, quota, faults, active_sequences,
                   next_sequence_id, seqrun, closures, lock, kinds, pool_running, now, bpm,
                   is_playing, current_beat, start_time_ns, stop_event, events, next_event_id,
                   thread_pool, pool_pending, active_futures, sched, ctl, stop_beat, ncalls,
                   calls, fired>>

\* one client thread; the callbacks return at once or take time
InitSlow ==
    /\ clients = {"ctl"}
    /\ quota = MaxCalls
    /\ faults = {"return", "slow"}
    /\ Transport
    /\ Sequencer
    /\ Instruments

\* critical events only: schedule_critical_event, lines 547-560
NextSlow ==
    \/ Tick
    \/ Start
    \/ StartRun
    \/ \E beat \in 0..MaxBeatNum, kind \in faults : SchedEnter("ctl", beat, FALSE, kind)
    \/ SchedStamp("ctl")
    \/ SchedPush("ctl")
    \/ SchedReturn("ctl")
    \/ DispLoop
    \/ DispExec
    \/ DispReturn
    \/ DispPeek
    \/ DispWake

SpecSlow == InitSlow /\ [][NextSlow]_vars

\* one second of the clock
Second == NANOSECONDS_PER_MINUTE \div 60

\* a tempo change while events at beat 1 and at beat 4 are pending: the client
\* schedules, the clock runs, set_tempo halves the tempo or restores it
NextTempo ==
    \/ Tick
    \/ Start
    \/ StartRun
    \/ \E beat \in {BeatDen, 4 * BeatDen}, conc \in BOOLEAN :
          SchedEnter("ctl", beat, conc, "return")
    \/ SchedStamp("ctl")
    \/ SchedPush("ctl")
    \/ DispLoop
    \/ DispExec
    \/ DispPeek
    \/ DispWake
    \/ \E cb \in CallIds : WorkerRun(cb)
    \/ \E b \in {initial_bpm, initial_bpm \div 2} : SetTempo(b)

SpecTempo == Init /\ [][NextTempo]_vars

(***************************************************************************)
(* MIDISequencer (src/src/midi_generator/sequencer.py) on the transport.   *)
(* Its methods run on the control thread; a schedule_next callback runs    *)
(* _schedule_iteration on the pool thread (or in the caller, when it is    *)
(* past due).  A sequence has one note of NoteDur, on its first or on its   *)
(* second beat.  The events of the sequencer are all concurrent, so the    *)
(* dispatcher hands them to the pool.                                      *)
(***************************************************************************)
NoteStarts == {0, BeatDen}

Notes(start_beat) == <<[start_beat |-> start_beat, duration |-> NoteDur]>>

\* Sequence.total_duration: max(note.start_beat + note.duration)
RECURSIVE MaxEnd(_, _)
MaxEnd(notes, i) ==
    IF i > Len(notes) THEN 0
    ELSE LET rest == MaxEnd(notes, i + 1)
             end == notes[i].start_beat + notes[i].duration
         IN IF end > rest THEN end ELSE rest

\* the length taken from the last note's duration alone
last_duration(notes) == IF notes = <<>> THEN 0 ELSE notes[Len(notes)].duration

total_duration(notes) == MaxEnd(notes, 1)

\* every id that could be issued counts as present
KnownAny(sid) == sid \in SeqIds

\* sequence_id in self.active_sequences
Known(sid) == sid \in SeqIds /\ active_sequences[sid].present

instrument_vars == <<instruments, sink, result>>

transport_but_pool == <<clients, quota, faults, lock, kinds, now, bpm, is_playing, current_beat,
                        start_time_ns, stop_event, events, next_event_id, thread_pool,
                        pool_pending, active_futures, disp, sched, ctl, stop_beat, ncalls,
                        calls, fired>>

\* the method returns to its caller; a schedule_next callback on a pool thread is over
Return(t, outcome) ==
    /\ seqrun' = [seqrun EXCEPT ![t] =
                     IF t = "worker" THEN IdleSeq
                     ELSE [IdleSeq EXCEPT !.outcome = outcome]]
    /\ pool_running' = IF t = "worker" THEN pool_running \ {seqrun[t].cb} ELSE pool_running

\* the control thread enters `op`
Enter(op, sid, pc, base, beat) ==
    [seqrun EXCEPT !["ctl"] = [pc |-> pc, op |-> op, sid |-> sid, base |-> base, beat |-> beat,
                               note |-> 1, iter |-> 0, cb |-> 0, outcome |-> "none"]]

\* the control thread has run a method to its end: what it raised, or the
\* warning it logged, or "ok"
Done(outcome) ==
    [seqrun EXCEPT !["ctl"] = [IdleSeq EXCEPT !.outcome = outcome]]

\* schedule_sequence, lines 97-135: the id, the state, the read of current_beat
ScheduleSequence(notes, loop) ==
    /\ CtlFree
    /\ next_sequence_id < MaxSeqs
    /\ next_sequence_id' = next_sequence_id + 1
    /\ active_sequences' = [active_sequences EXCEPT ![next_sequence_id] =
                               [present |-> TRUE, notes |-> notes, loop |-> loop,
                                current_iteration |-> 0,
                                sequence_length |-> total_duration(notes),
                                runs |-> 0, stopped |-> -1,
                                base |-> CurrentBeatProp(is_playing)]]
    /\ seqrun' = Enter("schedule_sequence", next_sequence_id, "iter",
                       CurrentBeatProp(is_playing), 0)
    /\ UNCHANGED <<closures, pool_running, transport_but_pool, instrument_vars>>

\* schedule_note, lines 59-64: the call with its beat; the duration is NoteDur
ScheduleNote(beat) ==
    /\ CtlFree
    /\ seqrun' = Enter("schedule_note", -1, "note_on", 0, beat)
    /\ UNCHANGED <<active_sequences, next_sequence_id, closures, pool_running, transport_but_pool, instrument_vars>>

\* a _schedule_iteration that does not look whether the sequence is still active
ScheduleIterationUnchecked(t) ==
    /\ seqrun[t].pc = "iter"
    /\ seqrun' = [seqrun EXCEPT ![t].pc = "note_on", ![t].note = 1,
                                 ![t].iter = active_sequences[seqrun[t].sid].runs]
    /\ active_sequences' = [active_sequences EXCEPT ![seqrun[t].sid].runs = @ + 1]
    /\ UNCHANGED <<next_sequence_id, closures, pool_running, transport_but_pool, instrument_vars>>

\* _schedule_iteration, lines 150-163: the sequence must still be active.  The
\* test of line 150 and the fetch of line 157 are one step: a removal between
\* the two makes the fetch raise KeyError, which the caller of the callback
\* catches, and the iteration schedules nothing, as when the test fails
ScheduleIteration(t) ==
    /\ seqrun[t].pc = "iter"
    /\ IF ~Known(seqrun[t].sid)
       THEN /\ Return(t, "ok")
            /\ active_sequences' = active_sequences
       ELSE /\ seqrun' = [seqrun EXCEPT ![t].pc = "note_on", ![t].note = 1,
                                         ![t].iter = active_sequences[seqrun[t].sid].runs]
            /\ active_sequences' = [active_sequences EXCEPT ![seqrun[t].sid].runs = @ + 1]
            /\ pool_running' = pool_running
    /\ UNCHANGED <<next_sequence_id, closures, transport_but_pool, instrument_vars>>

\* the notes the method is scheduling: the one note of schedule_note at offset 0
\* of its beat, or seq_obj.notes of the state fetched at lines 157-158
NotesOf(t) ==
    IF seqrun[t].op = "schedule_note" THEN Notes(0) ELSE active_sequences[seqrun[t].sid].notes

\* the callback closes over these values, if schedule_event keeps it
Closed(values) ==
    IF NotPlaying(is_playing) THEN closures ELSE [closures EXCEPT ![ncalls + 1] = values]

\* lines 75 and 194: schedule_event(absolute_beat, note_on)
NoteOn(t) ==
    /\ seqrun[t].pc = "note_on"
    /\ schedule_event(t, seqrun[t].base, seqrun[t].beat + NotesOf(t)[seqrun[t].note].start_beat,
                      TRUE, "note_on")
    /\ closures' = Closed([seq |-> seqrun[t].sid, iter |-> seqrun[t].iter, base |-> 0, beat |-> 0,
                             note |-> seqrun[t].note])
    /\ seqrun' = [seqrun EXCEPT ![t].pc = "note_off"]
    /\ UNCHANGED <<active_sequences, next_sequence_id>>

\* lines 76 and 195-203: schedule_event(absolute_beat + duration, note_off), then
\* the next note, or the end of the notes
NoteOff(t) ==
    /\ seqrun[t].pc = "note_off"
    /\ schedule_event(t, seqrun[t].base,
                      seqrun[t].beat + NotesOf(t)[seqrun[t].note].start_beat
                                     + NotesOf(t)[seqrun[t].note].duration,
                      TRUE, "note_off")
    /\ closures' = Closed([seq |-> seqrun[t].sid, iter |-> seqrun[t].iter, base |-> 0, beat |-> 0,
                             note |-> seqrun[t].note])
    /\ seqrun' = IF seqrun[t].op = "schedule_note" THEN [seqrun EXCEPT ![t].pc = "ret"]
                 ELSE IF seqrun[t].note < Len(NotesOf(t))
                      THEN [seqrun EXCEPT ![t].pc = "note_on", ![t].note = @ + 1]
                      ELSE [seqrun EXCEPT ![t].pc = "loop"]
    /\ UNCHANGED <<active_sequences, next_sequence_id>>

\* the next iteration scheduled without counting this one
LoopNextUncounted(t) ==
    /\ seqrun[t].pc = "loop"
    /\ active_sequences[seqrun[t].sid].loop
    /\ LET next_start == seqrun[t].beat + active_sequences[seqrun[t].sid].sequence_length
       IN /\ schedule_event(t, seqrun[t].base, next_start, TRUE, "schedule_next")
          /\ closures' = Closed([seq |-> seqrun[t].sid, iter |-> seqrun[t].iter + 1,
                                 base |-> seqrun[t].base, beat |-> next_start,
                                 note |-> 0])
    /\ seqrun' = [seqrun EXCEPT ![t].pc = "ret"]
    /\ UNCHANGED <<active_sequences, next_sequence_id>>

\* lines 211-229: if seq_obj.loop, count the iteration and schedule schedule_next
\* at start_beat + sequence_length; seq_obj is the object fetched at line 158,
\* also when the sequence has been removed since
LoopNext(t) ==
    /\ seqrun[t].pc = "loop"
    /\ active_sequences[seqrun[t].sid].loop
    /\ LET next_start == seqrun[t].beat + active_sequences[seqrun[t].sid].sequence_length
       IN /\ schedule_event(t, seqrun[t].base, next_start, TRUE, "schedule_next")
          /\ closures' = Closed([seq |-> seqrun[t].sid, iter |-> seqrun[t].iter + 1,
                                 base |-> seqrun[t].base, beat |-> next_start,
                                 note |-> 0])
    /\ active_sequences' = [active_sequences EXCEPT ![seqrun[t].sid].current_iteration = @ + 1]
    /\ seqrun' = [seqrun EXCEPT ![t].pc = "ret"]
    /\ UNCHANGED next_sequence_id

\* lines 225-229: the iteration is final
LoopEnd(t) ==
    /\ seqrun[t].pc = "loop"
    /\ sched[t].pc = "idle"
    /\ ~active_sequences[seqrun[t].sid].loop
    /\ Return(t, "ok")
    /\ UNCHANGED <<active_sequences, next_sequence_id, closures, transport_but_pool, instrument_vars>>

\* the last schedule_event call of the method has returned, and so does the method
MethodReturn(t) ==
    /\ seqrun[t].pc = "ret"
    /\ sched[t].pc = "idle"
    /\ Return(t, "ok")
    /\ UNCHANGED <<active_sequences, next_sequence_id, closures, transport_but_pool, instrument_vars>>

\* a start_loop that never finds the sequence looping
WasLoopingNever(loop) == FALSE

\* start_loop, line 244: was_looping = state.sequence.loop
WasLooping(loop) == loop

\* start_loop, lines 242-256
StartLoop(sid) ==
    /\ CtlFree
    /\ IF Known(sid)
       THEN IF ~WasLooping(active_sequences[sid].loop)
            THEN /\ seqrun' = Enter("start_loop", sid, "iter", CurrentBeatProp(is_playing), 0)
                 /\ active_sequences' = [active_sequences EXCEPT ![sid].stopped = -1]
            ELSE /\ seqrun' = Done("was already looping")
                 /\ active_sequences' = active_sequences
       ELSE /\ seqrun' = Done("KeyError")
            /\ active_sequences' = active_sequences
    /\ UNCHANGED <<next_sequence_id, closures, pool_running, transport_but_pool, instrument_vars>>

\* stop_loop, lines 266-279: the flag cleared
LoopCleared(sid) ==
    [active_sequences EXCEPT ![sid].loop = FALSE,
                             ![sid].stopped = IF active_sequences[sid].loop
                                              THEN active_sequences[sid].runs ELSE @]

\* stop_loop, lines 266-282
StopLoop(sid) ==
    /\ CtlFree
    /\ IF Known(sid)
       THEN /\ active_sequences' = LoopCleared(sid)
            /\ seqrun' = Done(IF active_sequences[sid].loop THEN "ok" ELSE "was not looping")
       ELSE /\ active_sequences' = active_sequences
            /\ seqrun' = Done("KeyError")
    /\ UNCHANGED <<next_sequence_id, closures, pool_running, transport_but_pool, instrument_vars>>

\* MIDIToolHandler._handle_stop_sequence (src/src/llm_composer/midi_tools.py,
\* lines 180-192): stop_loop, its KeyError turned into a result
HandleStopSequence(sid) ==
    /\ CtlFree
    /\ IF Known(sid)
       THEN /\ active_sequences' = LoopCleared(sid)
            /\ seqrun' = Done("success")
       ELSE /\ active_sequences' = active_sequences
            /\ seqrun' = Done("failure")
    /\ UNCHANGED <<next_sequence_id, closures, pool_running, transport_but_pool, instrument_vars>>

\* remove_sequence, lines 292-300: the entry deleted; the state object lives on
\* in the methods that hold it
RemoveSequence(sid) ==
    /\ CtlFree
    /\ active_sequences' = IF Known(sid) THEN [active_sequences EXCEPT ![sid].present = FALSE]
                           ELSE active_sequences
    /\ seqrun' = Done("ok")
    /\ UNCHANGED <<next_sequence_id, closures, pool_running, transport_but_pool, instrument_vars>>

\* a clear_all_sequences that also empties the transport's queue
ClearAllAndCancel ==
    /\ CtlFree
    /\ active_sequences' = [sid \in SeqIds |-> [active_sequences[sid] EXCEPT !.present = FALSE]]
    /\ seqrun' = Done("ok")
    /\ events' = <<>>
    /\ UNCHANGED <<next_sequence_id, closures, pool_running, clients, quota, faults, lock, kinds,
                   instruments, sink, result,
                   now, bpm, is_playing, current_beat, start_time_ns, stop_event,
                   next_event_id, thread_pool, pool_pending, active_futures, disp, sched, ctl,
                   stop_beat, ncalls, calls, fired>>

\* clear_all_sequences, lines 304-312
ClearAllSequences ==
    /\ CtlFree
    /\ active_sequences' = [sid \in SeqIds |-> [active_sequences[sid] EXCEPT !.present = FALSE]]
    /\ seqrun' = Done("ok")
    /\ UNCHANGED <<next_sequence_id, closures, pool_running, transport_but_pool, instrument_vars>>

\* the control thread and one pool thread use the sequencer
InitSeq ==
    /\ clients = SeqThreads
    /\ quota = MaxSeqCalls
    /\ faults = {"return"}
    /\ Transport
    /\ Sequencer
    /\ Instruments

NextSeq ==
    \/ Tick
    \/ \E start_beat \in NoteStarts, loop \in BOOLEAN : ScheduleSequence(Notes(start_beat), loop)
    \/ ScheduleNote(BeatDen)
    \/ \E t \in SeqThreads : ScheduleIteration(t)
    \/ \E t \in SeqThreads : NoteOn(t)
    \/ \E t \in SeqThreads : NoteOff(t)
    \/ \E t \in SeqThreads : LoopNext(t)
    \/ \E t \in SeqThreads : LoopEnd(t)
    \/ \E t \in SeqThreads : MethodReturn(t)
    \/ \E sid \in 0..MaxSeqs : StartLoop(sid)
    \/ \E sid \in 0..MaxSeqs : StopLoop(sid)
    \/ \E sid \in 0..MaxSeqs : HandleStopSequence(sid)
    \/ \E sid \in 0..MaxSeqs : RemoveSequence(sid)
    \/ ClearAllSequences
    \/ \E t \in SeqThreads : SchedStamp(t)
    \/ \E t \in SeqThreads : SchedPush(t)
    \/ DispLoop
    \/ DispExec
    \/ DispPeek
    \/ DispWake
    \/ \E cb \in CallIds : WorkerRun(cb)
    \/ Start
    \/ StartRun
    \/ Stop
    \/ StopJoin
    \/ StopFutures
    \/ StopPool
    \/ StopClear

SpecSeq == InitSeq /\ [][NextSeq]_vars

(***************************************************************************)
(* A sequence given as a list of tuples: schedule_sequence, line 98, builds *)
(* it with Sequence.from_tuple_list (src/src/midi_generator/structures.py). *)
(***************************************************************************)
RECURSIVE TupleLoop(_, _, _, _)

\* the loop of from_tuple_list: one note per (pitch, velocity, channel, duration),
\* at the current beat, which then moves on by the duration
TupleLoop(tuples, i, beat, notes) ==
    IF i > Len(tuples) THEN notes
    ELSE TupleLoop(tuples, i + 1, beat + tuples[i][4],
                   Append(notes, [pitch |-> tuples[i][1], velocity |-> tuples[i][2],
                                  duration |-> tuples[i][4], start_beat |-> beat,
                                  channel |-> tuples[i][3]]))

from_tuple_list(tuples) == TupleLoop(tuples, 1, 0, <<>>)

\* the tuple lists of the callers: two notes of one beat, or one note of two
Melodies ==
    {<<<<60, 100, 1, NoteDur>>, <<64, 100, 1, NoteDur>>>>,
     <<<<72, 90, 2, 2 * NoteDur>>>>}

\* the control thread schedules one tuple list on a transport it may start; the
\* dispatcher and the pool run the callbacks
NextTuples ==
    \/ Tick
    \/ Start
    \/ StartRun
    \/ \E tuples \in Melodies : ScheduleSequence(from_tuple_list(tuples), FALSE)
    \/ ScheduleIteration("ctl")
    \/ NoteOn("ctl")
    \/ NoteOff("ctl")
    \/ LoopEnd("ctl")
    \/ SchedStamp("ctl")
    \/ SchedPush("ctl")
    \/ DispLoop
    \/ DispExec
    \/ DispPeek
    \/ DispWake
    \/ \E cb \in CallIds : WorkerRun(cb)

SpecTuples == InitSeq /\ [][NextTuples]_vars

\* the sequences a caller loops: one note on the first or on the second beat, or
\* the two notes of a tuple list
Loops == {Notes(start_beat) : start_beat \in NoteStarts}
             \cup {from_tuple_list(<<<<60, 100, 1, NoteDur>>, <<64, 100, 1, NoteDur>>>>)}

\* one sequence, looping or not, and stop_loop; the iterations after the first
\* are scheduled by the schedule_next callback
NextLoop ==
    \/ Tick
    \/ Start
    \/ StartRun
    \/ \E notes \in Loops, loop \in BOOLEAN : ScheduleSequence(notes, loop)
    \/ \E t \in SeqThreads : ScheduleIteration(t)
    \/ \E t \in SeqThreads : NoteOn(t)
    \/ \E t \in SeqThreads : NoteOff(t)
    \/ \E t \in SeqThreads : LoopNext(t)
    \/ \E t \in SeqThreads : LoopEnd(t)
    \/ \E t \in SeqThreads : MethodReturn(t)
    \/ \E sid \in 0..(MaxSeqs - 1) : StopLoop(sid)
    \/ \E t \in SeqThreads : SchedStamp(t)
    \/ \E t \in SeqThreads : SchedPush(t)
    \/ DispLoop
    \/ DispExec
    \/ DispPeek
    \/ DispWake
    \/ \E cb \in CallIds : WorkerRun(cb)

SpecLoop == InitSeq /\ [][NextLoop]_vars

\* one sequence, looping or not, removed by the control thread while the
\* dispatcher and the pool thread run its callbacks
NextRemove ==
    \/ Tick
    \/ Start
    \/ StartRun
    \/ \E notes \in Loops, loop \in BOOLEAN : ScheduleSequence(notes, loop)
    \/ \E t \in SeqThreads : ScheduleIteration(t)
    \/ \E t \in SeqThreads : NoteOn(t)
    \/ \E t \in SeqThreads : NoteOff(t)
    \/ \E t \in SeqThreads : LoopNext(t)
    \/ \E t \in SeqThreads : LoopEnd(t)
    \/ \E t \in SeqThreads : MethodReturn(t)
    \/ \E sid \in 0..MaxSeqs : RemoveSequence(sid)
    \/ ClearAllSequences
    \/ \E t \in SeqThreads : SchedStamp(t)
    \/ \E t \in SeqThreads : SchedPush(t)
    \/ DispLoop
    \/ DispExec
    \/ DispPeek
    \/ DispWake
    \/ \E cb \in CallIds : WorkerRun(cb)

SpecRemove == InitSeq /\ [][NextRemove]_vars

\* a caller that schedules its sequence only while the transport is stopped,
\* before the first start() or after a stop()
NextIdle ==
    \/ Tick
    \/ Start
    \/ StartRun
    \/ Stop
    \/ StopJoin
    \/ StopFutures
    \/ StopPool
    \/ StopClear
    \/ \E notes \in Loops, loop \in BOOLEAN : ~is_playing /\ ScheduleSequence(notes, loop)
    \/ ScheduleIteration("ctl")
    \/ NoteOn("ctl")
    \/ NoteOff("ctl")
    \/ LoopNext("ctl")
    \/ LoopEnd("ctl")
    \/ MethodReturn("ctl")
    \/ DispLoop

SpecIdle == InitSeq /\ [][NextIdle]_vars

(***************************************************************************)
(* Instrument (src/src/composer/instrument.py) and InstrumentManager       *)
(* (src/src/midi_generator/instrument_manager.py), with SequencerAdapter   *)
(* (src/src/composer/instrument_adapters.py) as the sequence player.  The  *)
(* control thread calls them; the transport of these runs is not started,  *)
(* so schedule_event refuses every event of a sequence (transport.py,      *)
(* lines 308-310).                                                         *)
(***************************************************************************)
Min(a, b) == IF a < b THEN a ELSE b

Max(a, b) == IF a > b THEN a ELSE b

\* a configuration that is never refused
AnyConfig(channel, default_velocity, transpose) == TRUE

\* InstrumentConfig.__post_init__, lines 19-26: no ValueError
ValidConfig(channel, default_velocity, transpose) ==
    /\ 0 <= channel /\ channel <= 15
    /\ 0 <= default_velocity /\ default_velocity <= 127
    /\ -127 <= transpose /\ transpose <= 127

\* the transposed pitch wrapped into 0..127
apply_transpose_wrapped(pitch, transpose) == (pitch + transpose) % 128

\* Instrument._apply_transpose, lines 118-119
apply_transpose(pitch, transpose) == Max(0, Min(127, pitch + transpose))

\* a note of the caller: Note(pitch, velocity, duration, start_beat, channel)
Note(pitch, start_beat, channel) ==
    [pitch |-> pitch, velocity |-> 100, duration |-> NoteDur, start_beat |-> start_beat,
     channel |-> channel]

\* the sequences the callers play: tempo_bpm 0 stands for None
Riff == [notes |-> <<Note(60, 0, 9)>>, tempo_bpm |-> 0, loop |-> FALSE, name |-> "riff"]

InstSequences ==
    {Riff,
     [notes |-> <<Note(5, 0, 9)>>, tempo_bpm |-> 0, loop |-> FALSE, name |-> "low"],
     [notes |-> <<Note(120, 0, 9), Note(60, NoteDur, 0)>>, tempo_bpm |-> 90, loop |-> TRUE,
      name |-> "high"]}

\* the caller's sequence handed on as it is
unmodified_sequence(config, sequence, override_channel) == sequence

\* play_sequence, lines 171-192: the copy with the pitches transposed and, if
\* override_channel, the instrument's channel
modified_sequence(config, sequence, override_channel) ==
    [notes |-> [i \in 1..Len(sequence.notes) |->
                   [pitch |-> apply_transpose(sequence.notes[i].pitch, config.transpose),
                    velocity |-> sequence.notes[i].velocity,
                    duration |-> sequence.notes[i].duration,
                    start_beat |-> sequence.notes[i].start_beat,
                    channel |-> IF override_channel THEN config.channel
                                ELSE sequence.notes[i].channel]],
     tempo_bpm |-> sequence.tempo_bpm,
     loop |-> sequence.loop,
     name |-> sequence.name]

\* SequencerAdapter.play_sequence, line 68: schedule_sequence with the transport
\* stopped; _schedule_iteration counts the iteration of a looping sequence
\* (sequencer.py, lines 211-212) although its events are refused
Scheduled(sequence) ==
    [present |-> TRUE, notes |-> sequence.notes, loop |-> sequence.loop,
     current_iteration |-> IF sequence.loop THEN 1 ELSE 0,
     sequence_length |-> total_duration(sequence.notes), runs |-> 1, stopped |-> -1,
     base |-> CurrentBeatProp(is_playing)]

\* SequencerAdapter.stop_sequence, line 76, for each of `ids`: remove_sequence
Removed(ids) ==
    [sid \in SeqIds |-> IF sid \in ids THEN [active_sequences[sid] EXCEPT !.present = FALSE]
                        ELSE active_sequences[sid]]

\* the sequence player is not told
NotStopped(ids) == sink

\* the sequence player has seen one more stop_sequence for each of `ids`
Stopped(ids) ==
    [sink EXCEPT !.stopped = [sid \in SeqIds |-> IF sid \in ids THEN @[sid] + 1 ELSE @[sid]]]

sequencer_but_catalogue == <<seqrun, closures, pool_running, transport_but_pool>>

\* Instrument.play_sequence, lines 171-198
PlaySequence(name, sequence, override_channel) ==
    /\ CtlFree
    /\ ~is_playing
    /\ instruments[name].present
    /\ next_sequence_id < MaxInstSeqs
    /\ LET modified == modified_sequence(instruments[name], sequence, override_channel)
           sequence_id == next_sequence_id
       IN /\ sink' = [sink EXCEPT !.played = <<modified>>]
          /\ active_sequences' = [active_sequences EXCEPT ![sequence_id] = Scheduled(modified)]
          /\ next_sequence_id' = next_sequence_id + 1
          /\ instruments' = [instruments EXCEPT ![name].active_sequences = @ \cup {sequence_id}]
          /\ result' = [op |-> "play_sequence", value |-> sequence_id, sequence |-> sequence]
    /\ UNCHANGED sequencer_but_catalogue

\* a stop_sequence that never finds the id in the set
InActiveNever(name, ids) == {}

\* the ids stop_sequence hands to the sequence player
InActive(name, ids) == ids \cap instruments[name].active_sequences

\* Instrument.stop_sequence, lines 206-208
StopSequence(name, sequence_id) ==
    /\ CtlFree
    /\ instruments[name].present
    /\ sink' = Stopped(InActive(name, {sequence_id}))
    /\ active_sequences' = Removed(InActive(name, {sequence_id}))
    /\ instruments' = [instruments EXCEPT ![name].active_sequences = @ \ {sequence_id}]
    /\ result' = [op |-> "stop_sequence", value |-> "None"]
    /\ UNCHANGED <<next_sequence_id, sequencer_but_catalogue>>

\* Instrument.stop_all_sequences, lines 212-213: stop_sequence for each id of
\* the copy of the set
StopAllSequences(name) ==
    /\ CtlFree
    /\ instruments[name].present
    /\ sink' = Stopped(InActive(name, instruments[name].active_sequences))
    /\ active_sequences' = Removed(InActive(name, instruments[name].active_sequences))
    /\ instruments' = [instruments EXCEPT ![name].active_sequences = {}]
    /\ result' = [op |-> "stop_all_sequences", value |-> "None"]
    /\ UNCHANGED <<next_sequence_id, sequencer_but_catalogue>>

\* Instrument.play_note, lines 131-148, with the default velocity; Instrument.stop_note,
\* lines 156-157
PlayNote(name, pitch) ==
    /\ CtlFree
    /\ instruments[name].present
    /\ sink' = [sink EXCEPT !.note = <<[op |-> "play_note",
                                        pitch |-> apply_transpose(pitch, instruments[name].transpose),
                                        velocity |-> instruments[name].default_velocity,
                                        channel |-> instruments[name].channel]>>]
    /\ result' = [op |-> "play_note", value |-> "None", pitch |-> pitch]
    /\ UNCHANGED <<instruments, active_sequences, next_sequence_id, sequencer_but_catalogue>>

StopNote(name, pitch) ==
    /\ CtlFree
    /\ instruments[name].present
    /\ sink' = [sink EXCEPT !.note = <<[op |-> "stop_note",
                                        pitch |-> apply_transpose(pitch, instruments[name].transpose),
                                        velocity |-> 0,
                                        channel |-> instruments[name].channel]>>]
    /\ result' = [op |-> "stop_note", value |-> "None", pitch |-> pitch]
    /\ UNCHANGED <<instruments, active_sequences, next_sequence_id, sequencer_but_catalogue>>

\* InstrumentManager.create_instrument, lines 48-62
CreateInstrument(name, channel, default_velocity, transpose) ==
    /\ CtlFree
    /\ IF instruments[name].present
       THEN /\ instruments' = instruments
            /\ result' = [op |-> "create_instrument", value |-> FALSE]
       ELSE IF ValidConfig(channel, default_velocity, transpose)
            THEN /\ instruments' = [instruments EXCEPT ![name] =
                                       [present |-> TRUE, channel |-> channel,
                                        default_velocity |-> default_velocity,
                                        transpose |-> transpose, active_sequences |-> {}]]
                 /\ result' = [op |-> "create_instrument", value |-> TRUE]
            ELSE /\ instruments' = instruments
                 /\ result' = [op |-> "create_instrument", value |-> FALSE]
    /\ UNCHANGED <<sink, active_sequences, next_sequence_id, sequencer_but_catalogue>>

\* InstrumentManager.remove_instrument, lines 92-97
RemoveInstrument(name) ==
    /\ CtlFree
    /\ IF instruments[name].present
       THEN /\ sink' = Stopped(InActive(name, instruments[name].active_sequences))
            /\ active_sequences' = Removed(InActive(name, instruments[name].active_sequences))
            /\ instruments' = [instruments EXCEPT ![name] = NoInstrument]
            /\ result' = [op |-> "remove_instrument", value |-> TRUE]
       ELSE /\ UNCHANGED <<sink, active_sequences, instruments>>
            /\ result' = [op |-> "remove_instrument", value |-> FALSE]
    /\ UNCHANGED <<next_sequence_id, sequencer_but_catalogue>>

\* the ids in the active sets of the registered instruments
AllActive == UNION {instruments[name].active_sequences : name \in {n \in Names : instruments[n].present}}

\* the sets counted after they have been emptied
TotalAfterwards(names) == 0

\* sum of len(instrument.get_active_sequences()) over the registered instruments
RECURSIVE TotalActive(_)
TotalActive(names) ==
    IF names = {} THEN 0
    ELSE LET name == CHOOSE n \in names : TRUE
         IN (IF instruments[name].present THEN Cardinality(instruments[name].active_sequences)
             ELSE 0) + TotalActive(names \ {name})

\* InstrumentManager.stop_all_instruments, lines 105-109
StopAllInstruments ==
    /\ CtlFree
    /\ sink' = Stopped(AllActive)
    /\ active_sequences' = Removed(AllActive)
    /\ instruments' = [name \in Names |-> [instruments[name] EXCEPT !.active_sequences = {}]]
    /\ result' = [op |-> "stop_all_instruments", value |-> TotalActive(Names)]
    /\ UNCHANGED <<next_sequence_id, sequencer_but_catalogue>>

\* what the callers pass to create_instrument
Channels == {1, 2, 16}
Velocities == {100, 128}
Transposes == {12, 128}

\* the manager, its instruments and the sequencer behind them; the transport stopped
InitInst ==
    /\ clients = {"ctl"}
    /\ quota = 0
    /\ faults = {"return"}
    /\ Transport
    /\ Sequencer
    /\ Instruments

NextInst ==
    \/ \E name \in Names, channel \in Channels, default_velocity \in Velocities,
          transpose \in Transposes :
            CreateInstrument(name, channel, default_velocity, transpose)
    \/ \E name \in Names : RemoveInstrument(name)
    \/ StopAllInstruments
    \/ \E name \in Names : PlaySequence(name, Riff, TRUE)
    \/ \E name \in Names, sequence_id \in SeqIds : StopSequence(name, sequence_id)
    \/ \E name \in Names : StopAllSequences(name)
    \/ \E sid \in SeqIds : RemoveSequence(sid)
    \/ ClearAllSequences

SpecInst == InitInst /\ [][NextInst]_vars

\* one instrument, created with any transpose; the transport stopped
InitConfig ==
    /\ clients = {"ctl"}
    /\ quota = 0
    /\ faults = {"return"}
    /\ Transport
    /\ Sequencer
    /\ sink = NoSink
    /\ result = [op |-> "create_instrument", value |-> TRUE]
    /\ \E channel \in {1}, transpose \in -127..127 :
          instruments = [name \in Names |->
                            IF name = "bass"
                            THEN [present |-> TRUE, channel |-> channel,
                                  default_velocity |-> 100, transpose |-> transpose,
                                  active_sequences |-> {}]
                            ELSE NoInstrument]

\* the instrument plays sequences and stops them
NextPlay ==
    \/ \E sequence \in InstSequences, override_channel \in BOOLEAN :
            PlaySequence("bass", sequence, override_channel)
    \/ \E sequence_id \in SeqIds : StopSequence("bass", sequence_id)
    \/ StopAllSequences("bass")

SpecPlay == InitConfig /\ [][NextPlay]_vars

\* the instrument plays notes and stops them
NextNote ==
    \/ \E pitch \in 0..127 : PlayNote("bass", pitch)
    \/ \E pitch \in {0, 60, 127} : StopNote("bass", pitch)

SpecNote == InitConfig /\ [][NextNote]_vars

(***************************************************************************)
(* Properties.                                                             *)
(***************************************************************************)
Callbacks(evs) == {evs[i].callback : i \in 1..Len(evs)}

Pos(evs, cb) == CHOOSE k \in 1..Len(evs) : evs[k].callback = cb

\* the callback is held somewhere in the transport: in the queue, in the
\* dispatcher's batch or in the worker pool
Held(c) ==
    \/ c \in Callbacks(events)
    \/ c \in Callbacks(disp.events_to_execute)
    \/ c \in pool_pending

\* the calls that returned an event id
Accepted == {c \in CallIds : calls[c].st \notin {"unused", "active", "rejected"}}

\* the drain of _collect_ready_events took `batch` out of `before` and left `after`
Drained(before, after, e) ==
    e.callback \in Callbacks(before) /\ e.callback \notin Callbacks(after)

\* C1. Whenever the dispatcher drains the queue, of two pending events with
\* different fire times the later one is only drained if the earlier one is
\* drained with it, and earlier in the batch; so events leave the queue in
\* non-decreasing order of timestamp_ns.
C1_DrainOrder(before, after, batch) ==
    \A i, j \in 1..Len(before) :
        (before[i].timestamp_ns < before[j].timestamp_ns /\ Drained(before, after, before[j]))
        => /\ Drained(before, after, before[i])
           /\ before[i].callback \in Callbacks(batch)
           /\ before[j].callback \in Callbacks(batch)
           /\ Pos(batch, before[i].callback) < Pos(batch, before[j].callback)

C1_FireOrder ==
    [][DispLoop => C1_DrainOrder(events, events', disp'.events_to_execute)]_vars

C1_Witness ==
    /\ disp.pc = "exec"
    /\ \E i, j \in 1..Len(disp.events_to_execute) :
          i < j /\ disp.events_to_execute[i].timestamp_ns < disp.events_to_execute[j].timestamp_ns

\* C2. A schedule_event call that finds its timestamp at or before the clock runs
\* the callback once, in the calling thread and before it returns, never puts the
\* event in the queue, and returns the id it took from the counter: non-negative,
\* below the counter and returned by no other call.
C2_PastDueStep(t) ==
    LET cb == sched[t].callback
        timestamp_ns == start_time_ns + BeatToNs(sched[t].base, sched[t].beat, bpm)
    IN (sched[t].pc = "stamp" /\ sched'[t].pc # "stamp" /\ timestamp_ns <= now)
       => /\ fired'[cb] = <<t>>
          /\ sched'[t].pc = "idle"
          /\ events' = events
          /\ calls'[cb].st = "immediate"
          /\ calls'[cb].id = sched[t].event_id

C2_PastDueState ==
    \A c \in CallIds :
        calls[c].st = "immediate"
        => /\ fired[c] = <<calls[c].by>>
           /\ ~Held(c)
           /\ calls[c].id >= 0
           /\ calls[c].id < next_event_id
           /\ \A d \in Accepted \ {c} : calls[d].id # calls[c].id

C2_PastDueInline ==
    /\ [][\A t \in Callers : C2_PastDueStep(t)]_vars
    /\ []C2_PastDueState

C2_Witness ==
    \E c \in CallIds :
        calls[c].st = "immediate" /\ fired[c] = <<"ctl">> /\ sched["ctl"].pc = "idle"

\* C3. A schedule_event call on a transport that is not playing returns -1 and
\* changes neither the queue nor the id counter; its callback is not invoked
\* then and never afterwards, also not after a later start().
C3_RejectStep ==
    (ncalls' = ncalls + 1 /\ ~is_playing)
    => /\ calls'[ncalls + 1].st = "rejected"
       /\ calls'[ncalls + 1].id = -1
       /\ events' = events
       /\ next_event_id' = next_event_id
       /\ fired' = fired
       /\ sched' = sched
       /\ pool_pending' = pool_pending

C3_RejectState ==
    \A c \in CallIds :
        calls[c].st = "rejected" => (fired[c] = <<>> /\ ~Held(c) /\ calls[c].id = -1)

C3_NotRunning ==
    /\ [][C3_RejectStep]_vars
    /\ []C3_RejectState

C3_Witness ==
    \E c \in CallIds :
        calls[c].st = "rejected" /\ is_playing /\ disp.pc = "wait" /\ now > start_time_ns

NewTimestamp(after, event) == after[Pos(after, event.callback)].timestamp_ns

\* (new_ts - start) / new ns_per_beat and (old_ts - start) / old ns_per_beat differ
\* by less than the beats of one clock unit at the new tempo
SameBeat(old_ts, new_ts, start, old_bpm, new_bpm) ==
    LET d == (new_ts - start) * new_bpm - (old_ts - start) * old_bpm
    IN -new_bpm < d /\ d < new_bpm

\* C4. set_tempo on a playing transport keeps every event that is pending with a
\* timestamp after the clock, at the same beat up to the truncation of the new
\* timestamp to a whole clock unit, and inverts the fire-time order of no two of
\* them: equal fire times stay equal, fire times whose beats are at least one new
\* clock unit apart stay strictly ordered, closer ones may become equal by the
\* truncation.
C4_Rescaled(before, after, old_bpm, new_bpm) ==
    /\ \A i \in 1..Len(before) :
          IsFuture(before[i], now)
          => /\ before[i].callback \in Callbacks(after)
             /\ SameBeat(before[i].timestamp_ns, NewTimestamp(after, before[i]),
                         start_time_ns, old_bpm, new_bpm)
    /\ \A i, j \in 1..Len(before) :
          (IsFuture(before[i], now) /\ IsFuture(before[j], now)
           /\ before[i].callback \in Callbacks(after) /\ before[j].callback \in Callbacks(after))
          => /\ before[i].timestamp_ns < before[j].timestamp_ns
                => NewTimestamp(after, before[i]) <= NewTimestamp(after, before[j])
             /\ before[i].timestamp_ns = before[j].timestamp_ns
                => NewTimestamp(after, before[i]) = NewTimestamp(after, before[j])
             /\ (before[j].timestamp_ns - before[i].timestamp_ns) * old_bpm >= new_bpm
                => NewTimestamp(after, before[i]) < NewTimestamp(after, before[j])

C4_TempoKeepsBeat ==
    [][((\E b \in Bpms : SetTempo(b)) /\ is_playing) => C4_Rescaled(events, events', bpm, bpm')]_vars

C4_Witness ==
    /\ bpm # initial_bpm
    /\ Len(events) >= 2
    /\ \A i \in 1..Len(events) : calls[events[i].callback].st = "rescheduled"
    /\ \E i, j \in 1..Len(events) : events[i].timestamp_ns < events[j].timestamp_ns

\* C5. set_tempo leaves an event that is still in the heap with a timestamp at or
\* before the clock where it is, unchanged, for the dispatcher to drain.
C5_PastDueKept ==
    [][(\E b \in Bpms : SetTempo(b))
       => \A i \in 1..Len(events) :
             ~IsFuture(events[i], now) => \E k \in 1..Len(events') : events'[k] = events[i]]_vars

\* C6. Once stop() has returned the queue is empty, the dispatcher thread has
\* ended, the pool is shut down with no task left, every event the dispatcher had
\* drained has run, and an event that stop() cleared from the queue is never
\* invoked, also not after a later start(); stop() on a stopped transport changes
\* nothing.
C6_Stopped ==
    (CtlFree /\ ~is_playing)
    => /\ events = <<>>
       /\ disp.pc \in {"none", "done"}
       /\ ~thread_pool
       /\ pool_pending = {}
       /\ active_futures = {}
       /\ \A c \in CallIds : calls[c].st = "drained" => Len(fired[c]) = 1

C6_ClearedNeverRuns ==
    \A c \in CallIds : calls[c].st = "cleared" => (fired[c] = <<>> /\ ~Held(c))

C6_StopQuiesces ==
    /\ []C6_Stopped
    /\ []C6_ClearedNeverRuns
    /\ [][(Stop /\ ~is_playing) => UNCHANGED vars]_vars

C6_Witness ==
    /\ is_playing
    /\ disp.pc = "exec"
    /\ \E c \in CallIds : calls[c].st = "cleared"

\* C7. After stop() the stored beat is the beat the transport had reached when it
\* was stopped: at least the elapsed beat at the entry of stop().
C7_StopSnapshotsBeat ==
    (CtlFree /\ ~is_playing /\ stop_beat >= 0) => current_beat >= stop_beat

\* C8. No two schedule_event calls return the same event id.
C8_UniqueIds ==
    \A c, d \in Accepted : c # d => calls[c].id # calls[d].id

\* C9. Events with equal timestamps leave the queue in ascending order of event id.
C9_TieOrder ==
    disp.pc = "exec"
    => \A i, j \in 1..Len(disp.events_to_execute) :
          (i < j /\ disp.events_to_execute[i].timestamp_ns = disp.events_to_execute[j].timestamp_ns)
          => disp.events_to_execute[i].event_id < disp.events_to_execute[j].event_id

Range(evs) == {evs[i] : i \in 1..Len(evs)}

\* C10. remove_event(id) takes out of the queue the pending events with that id
\* and leaves every other pending event as it was; with no such event the pending
\* events are unchanged; a removed event's callback is never invoked.
C10_RemoveStep(event_id) ==
    RemoveEvent(event_id)
    => /\ Range(events') = {e \in Range(events) : e.event_id # event_id}
       /\ Len(events') = Cardinality(Range(events'))
       /\ (\A i \in 1..Len(events) : events[i].event_id # event_id) => Len(events') = Len(events)
       /\ fired' = fired

C10_RemovedNeverRuns ==
    \A c \in CallIds : calls[c].st = "removed" => (fired[c] = <<>> /\ ~Held(c))

C10_RemoveExactly ==
    /\ [][\A event_id \in 0..(MaxCalls - 1) : C10_RemoveStep(event_id)]_vars
    /\ []C10_RemovedNeverRuns

C10_Witness ==
    /\ \E c \in CallIds : calls[c].st = "removed" /\ calls[c].id = 0
    /\ Len(events) >= 1
    /\ now = MaxTime

\* C11. A callback that raises an Exception stops nothing: the exception leaves
\* neither the dispatcher thread nor the schedule_event call that ran the
\* callback; the step that runs it changes neither the playing flag, the stop
\* flag, the pool nor the queue, and the dispatcher goes on to the next event of
\* its batch; every event the dispatcher has drained is invoked.
C11_NothingEscapes ==
    /\ disp.pc # "crashed"
    /\ \A c \in CallIds : calls[c].st # "raised"

C11_RaiseStep ==
    \A c \in CallIds :
        (kinds[c] = "raise" /\ fired'[c] # fired[c])
        => /\ UNCHANGED <<is_playing, stop_event, thread_pool, events>>
           /\ fired'[c][Len(fired'[c])] = "dispatcher" => disp' = [disp EXCEPT !.idx = @ + 1]
           /\ fired'[c][Len(fired'[c])] \in Callers
              => (sched'[fired'[c][Len(fired'[c])]] = IdleSched /\ calls'[c].st = "immediate")

C11_RaiseContained ==
    /\ []C11_NothingEscapes
    /\ [][C11_RaiseStep]_vars
    /\ \A d \in CallIds : (calls[d].st = "drained") ~> (fired[d] # <<>>)

C11_Witness ==
    /\ disp.pc = "exec"
    /\ Len(disp.events_to_execute) >= 2
    /\ kinds[disp.events_to_execute[1].callback] = "raise"
    /\ fired[disp.events_to_execute[1].callback] = <<"dispatcher">>
    /\ fired[disp.events_to_execute[2].callback] # <<>>

\* C12. No callback runs while the event-queue lock is held: at every step that
\* invokes a callback, in the dispatcher, in a pool thread or in the caller of
\* schedule_event, the lock is free before and after; and no thread that is about
\* to run a callback or to take the lock holds the lock itself.
C12_LockFreeAtCall ==
    (fired' # fired) => (lock = "free" /\ lock' = "free")

C12_NoSelfWait ==
    /\ disp.pc \in {"loop", "exec"} => lock # "dispatcher"
    /\ \A t \in Callers : sched[t].pc \in {"stamp", "push"} => lock # t
    /\ ctl.pc = "stop_clear" => lock # "ctl"

C12_NoCallbackUnderLock ==
    /\ [][C12_LockFreeAtCall]_vars
    /\ []C12_NoSelfWait

C12_Witness ==
    /\ lock = "free"
    /\ \E c, d, e \in CallIds :
          /\ fired[c] = <<"dispatcher">>
          /\ fired[d] = <<"worker">>
          /\ fired[e] = <<"ctl">>

\* C13. stop() returns also when a callback submitted to the pool never returns:
\* once the dispatcher thread is joined, stop() gets through the wait for the
\* futures, the pool shutdown and the clearing of the queue.
C13_StopReturns ==
    (ctl.pc = "stop_futures") ~> (ctl.pc \notin {"stop_futures", "stop_pool", "stop_clear"})

\* C14. start() on a playing transport changes nothing: start time, queue,
\* dispatcher thread and pool stay as they are; a dispatcher thread is created
\* only when none is alive, so there is never a second one, and no callback is
\* invoked twice.
C14_SecondStart ==
    (Start /\ is_playing) => UNCHANGED vars

C14_OneDispatcher ==
    StartRun => disp.pc \in {"none", "done"}

C14_FiredOnce ==
    \A c \in CallIds : Len(fired[c]) <= 1

C14_StartIdempotent ==
    /\ [][C14_SecondStart]_vars
    /\ [][C14_OneDispatcher]_vars
    /\ []C14_FiredOnce

C14_Witness ==
    /\ is_playing
    /\ ENABLED Start
    /\ disp.pc = "wait"
    /\ events # <<>>
    /\ start_time_ns < now
    /\ \E c \in CallIds : fired[c] # <<>>

\* the transport as start() leaves it: playing from `now`, nothing queued,
\* nothing in the pool, a new dispatcher thread at the top of its loop
FreshlyStarted ==
    /\ is_playing
    /\ ~stop_event
    /\ start_time_ns = now
    /\ CurrentBeatProp(TRUE) = 0
    /\ events = <<>>
    /\ thread_pool
    /\ pool_pending = {}
    /\ pool_running = {}
    /\ active_futures = {}
    /\ disp = IdleDisp("loop")
    /\ ctl = IdleCtl

\* C15. reset() on a playing transport goes through stop(), zeroes the stored
\* beat and goes through start(): it ends playing, with an empty queue, the
\* stored beat 0 and the beat counted from the new start time, which is the state
\* stop() followed by start() ends in; tempo and the id counter are left alone by
\* both. reset() on a stopped transport only zeroes the stored beat.
C15_ResetRestarts ==
    /\ ResetZero => (is_playing' /\ current_beat' = 0 /\ ctl'.pc = "start" /\ events' = <<>>)
    /\ (StartRun /\ ctl.op = "reset") => (FreshlyStarted' /\ current_beat' = 0)
    /\ (StartRun /\ ctl.op = "start") => FreshlyStarted'
    /\ (ctl.pc # "idle" \/ Start \/ Stop \/ Reset) => UNCHANGED <<bpm, next_event_id>>

C15_ResetStopped ==
    (Reset /\ ~is_playing)
    => /\ current_beat' = 0
       /\ UNCHANGED <<is_playing, stop_event, start_time_ns, events, thread_pool, pool_pending,
                      pool_running, active_futures, disp, ctl, bpm, next_event_id, lock>>

C15_ResetEquivalence ==
    /\ [][C15_ResetRestarts]_vars
    /\ [][C15_ResetStopped]_vars

C15_Witness ==
    /\ ctl.pc = "start"
    /\ ctl.op = "reset"
    /\ start_time_ns < now
    /\ \E c \in CallIds : calls[c].st = "cleared"

\* no sequencer method and no schedule_event call is in progress
SeqQuiet == \A t \in SeqThreads : seqrun[t].pc = "idle" /\ sched[t].pc = "idle"

\* the queued events whose callback is of this kind
Enqueued(kind) == {i \in 1..Len(events) : kinds[events[i].callback] = kind}

(* C16: whenever no sequencer method is in progress, every note-on in the
   transport's queue has a note-off in the queue (all notes of the model have one
   pitch and one channel) whose timestamp is not earlier than the note-on's. *)
C16_NoteOnHasNoteOff ==
    SeqQuiet =>
        \A i \in Enqueued("note_on") :
            \E j \in Enqueued("note_off") :
                events[j].timestamp_ns >= events[i].timestamp_ns

\* the note-on callbacks of sequence `sid` that have been called
Sounded(sid) ==
    {c \in CallIds : kinds[c] = "note_on" /\ closures[c].seq = sid /\ fired[c] # <<>>}

(* C17: once stop_loop has cleared the flag of a looping sequence, the last
   iteration that _schedule_iteration had begun by then is the last one that
   sounds: no note-on of an iteration begun after the stop_loop is ever called. *)
C17_StoppedLoopIsLast ==
    \A sid \in SeqIds :
        active_sequences[sid].stopped >= 0 =>
            \A c \in Sounded(sid) : closures[c].iter < active_sequences[sid].stopped

\* start_loop, entered for a known sequence that was not looping, returns
StartLoopReturns ==
    /\ seqrun["ctl"].op = "start_loop"
    /\ seqrun["ctl"].pc # "idle"
    /\ seqrun'["ctl"].pc = "idle"

(* C18: when start_loop returns for a known sequence whose loop flag was false,
   the flag is true (so that further iterations follow the one it scheduled). *)
C18_StartLoopTurnsLoopingOn ==
    [][StartLoopReturns => active_sequences'[seqrun["ctl"].sid].loop]_vars

\* the step leaves the catalogue of sequences and the transport's queue alone
\* and starts no schedule_event call
NothingScheduled ==
    /\ active_sequences' = active_sequences
    /\ next_sequence_id' = next_sequence_id
    /\ closures' = closures
    /\ events' = events
    /\ calls' = calls
    /\ ncalls' = ncalls
    /\ sched' = sched

C19_StartLoopAgain ==
    \A sid \in SeqIds :
        (StartLoop(sid) /\ Known(sid) /\ active_sequences[sid].loop)
            => /\ NothingScheduled
               /\ seqrun'["ctl"].pc = "idle"
               /\ seqrun'["ctl"].outcome = "was already looping"

C19_StopLoopAgain ==
    \A sid \in SeqIds :
        (StopLoop(sid) /\ Known(sid) /\ ~active_sequences[sid].loop)
            => /\ NothingScheduled
               /\ seqrun'["ctl"].pc = "idle"
               /\ seqrun'["ctl"].outcome = "was not looping"

(* C19: start_loop on a sequence that is looping and stop_loop on a sequence
   that is not looping return without an error and change nothing: the loop
   flag, current_iteration, the active_sequences map and the transport's queue
   are as before, and no event is scheduled. *)
C19_NoOps == [][C19_StartLoopAgain /\ C19_StopLoopAgain]_vars

C19_Witness ==
    /\ seqrun["ctl"].outcome = "was already looping"
    /\ Known(0)
    /\ active_sequences[0].current_iteration > 0
    /\ events # <<>>

\* the id was never issued, or its sequence has been removed or cleared
NotFound(sid) == sid \notin SeqIds \/ ~active_sequences[sid].present

C20_StartLoopUnknown ==
    \A sid \in 0..MaxSeqs :
        (StartLoop(sid) /\ NotFound(sid))
            => /\ NothingScheduled
               /\ seqrun'["ctl"].pc = "idle"
               /\ seqrun'["ctl"].outcome = "KeyError"

C20_StopLoopUnknown ==
    \A sid \in 0..MaxSeqs :
        (StopLoop(sid) /\ NotFound(sid))
            => /\ NothingScheduled
               /\ seqrun'["ctl"].pc = "idle"
               /\ seqrun'["ctl"].outcome = "KeyError"

C20_StopSequenceUnknown ==
    \A sid \in 0..MaxSeqs :
        (HandleStopSequence(sid) /\ NotFound(sid))
            => /\ NothingScheduled
               /\ seqrun'["ctl"].pc = "idle"
               /\ seqrun'["ctl"].outcome = "failure"

(* C20: start_loop and stop_loop on an id that is not in active_sequences (never
   issued, or removed, or cleared) raise KeyError and change neither the
   sequencer's state nor the transport's queue; _handle_stop_sequence turns the
   KeyError of stop_loop into a result that is not a success. *)
C20_UnknownIdFails ==
    [][C20_StartLoopUnknown /\ C20_StopLoopUnknown /\ C20_StopSequenceUnknown]_vars

C20_Witness ==
    /\ seqrun["ctl"].outcome = "KeyError"
    /\ next_sequence_id > 0
    /\ NotFound(0)
    /\ events # <<>>

\* the transport is as it was: its queue, the events handed to the pool, the
\* calls made and the callbacks called
TransportUntouched ==
    /\ events' = events
    /\ pool_pending' = pool_pending
    /\ active_futures' = active_futures
    /\ calls' = calls
    /\ kinds' = kinds
    /\ closures' = closures
    /\ fired' = fired

\* the note callbacks of sequence `sid` that are in the queue
EnqueuedNotes(sid) ==
    {i \in 1..Len(events) : /\ kinds[events[i].callback] \in {"note_on", "note_off"}
                            /\ closures[events[i].callback].seq = sid}

C21_RemoveKeepsQueue ==
    /\ \A sid \in 0..MaxSeqs : RemoveSequence(sid) => TransportUntouched
    /\ ClearAllSequences => TransportUntouched

\* a note callback calls the sink whether or not its sequence is still known
C21_NoteStillSounds ==
    \A cb \in CallIds :
        (/\ kinds[cb] \in {"note_on", "note_off"}
         /\ closures[cb].seq \in SeqIds
         /\ NotFound(closures[cb].seq)
         /\ WorkerRun(cb))
            => /\ fired'[cb] = Append(fired[cb], "worker")
               /\ seqrun' = seqrun

(* C21: remove_sequence and clear_all_sequences change only the sequencer's
   catalogue; the transport's queue is as before, and a note-on or note-off of
   the removed sequence that the dispatcher hands to the pool still calls the
   sink. *)
C21_RemoveLeavesEvents == [][C21_RemoveKeepsQueue /\ C21_NoteStillSounds]_vars

C21_Witness ==
    /\ next_sequence_id > 0
    /\ NotFound(0)
    /\ seqrun["ctl"].outcome = "ok"
    /\ EnqueuedNotes(0) # {}
    /\ \E cb \in pool_pending : /\ kinds[cb] = "note_on"
                                /\ closures[cb].seq = 0

(* C22: every id in the active set of a registered instrument is the id of a
   sequence the sequencer still has in active_sequences (an id cancelled through
   the instrument has left the set). *)
C22_NoOrphanIds ==
    \A name \in Names :
        instruments[name].present =>
            \A sid \in instruments[name].active_sequences : Known(sid)

\* the sequence player sees exactly one more stop_sequence for each of `ids`
\* and none for any other id
StoppedOnce(ids) ==
    \A sid \in SeqIds :
        sink'.stopped[sid] = sink.stopped[sid] + (IF sid \in ids THEN 1 ELSE 0)

C23_StopSequence ==
    \A name \in Names, sid \in SeqIds :
        (StopSequence(name, sid) /\ sid \in instruments[name].active_sequences)
            => /\ sid \notin instruments'[name].active_sequences
               /\ StoppedOnce({sid})

C23_StopAllSequences ==
    \A name \in Names :
        StopAllSequences(name)
            => /\ instruments'[name].active_sequences = {}
               /\ StoppedOnce(instruments[name].active_sequences)

(* C23: stop_sequence(sid) of an instrument that has sid in its active set takes
   sid out of the set and calls the sequence player's stop_sequence(sid) exactly
   once; stop_all_sequences empties the set and calls stop_sequence once for each
   id that was in it. *)
C23_StopReachesSink == [][C23_StopSequence /\ C23_StopAllSequences]_vars

C23_Witness ==
    /\ result.op = "stop_all_sequences"
    /\ instruments["bass"].present
    /\ instruments["bass"].active_sequences = {}
    /\ sink.stopped[0] = 1
    /\ sink.stopped[1] = 1
    /\ instruments["lead"].active_sequences = {2}

\* pitch + transpose, held within 0..127
Clamped(pitch, transpose) ==
    IF pitch + transpose < 0 THEN 0
    ELSE IF pitch + transpose > 127 THEN 127
    ELSE pitch + transpose

\* `played` is `sequence` as the instrument `name` has to forward it
Forwarded(name, sequence, override_channel, played) ==
    /\ Len(played.notes) = Len(sequence.notes)
    /\ \A i \in 1..Len(sequence.notes) :
          /\ played.notes[i].pitch = Clamped(sequence.notes[i].pitch, instruments[name].transpose)
          /\ played.notes[i].channel = (IF override_channel THEN instruments[name].channel
                                        ELSE sequence.notes[i].channel)
          /\ played.notes[i].velocity = sequence.notes[i].velocity
          /\ played.notes[i].duration = sequence.notes[i].duration
          /\ played.notes[i].start_beat = sequence.notes[i].start_beat
    /\ played.loop = sequence.loop
    /\ played.name = sequence.name
    /\ played.tempo_bpm = sequence.tempo_bpm

C24_PlaySequenceStep ==
    \A sequence \in InstSequences, override_channel \in BOOLEAN :
        PlaySequence("bass", sequence, override_channel)
            => /\ Len(sink'.played) = 1
               /\ Forwarded("bass", sequence, override_channel, sink'.played[1])
               /\ active_sequences'[result'.value].present
               /\ active_sequences'[result'.value].notes = sink'.played[1].notes
               /\ result'.value \notin instruments["bass"].active_sequences
               /\ instruments'["bass"].active_sequences =
                      instruments["bass"].active_sequences \cup {result'.value}
               /\ result'.sequence = sequence

(* C24: play_sequence hands the sequence player a sequence with as many notes,
   in the same order, each with its pitch transposed and clamped to 0..127, the
   instrument's channel if override_channel and its own channel otherwise, and
   velocity, duration and start_beat as they were; loop, name and tempo are
   copied; the id the player returns joins the instrument's active set, and the
   caller's sequence is as it was. *)
C24_PlaySequenceForwards == [][C24_PlaySequenceStep]_vars

C24_Witness ==
    /\ result.op = "play_sequence"
    /\ instruments["bass"].transpose = 12
    /\ result.value \in instruments["bass"].active_sequences
    /\ result.sequence.notes[1].pitch = 120
    /\ Len(sink.played[1].notes) = 2
    /\ sink.played[1].notes[1].pitch = 127
    /\ sink.played[1].notes[1].channel = 1
    /\ sink.played[1].notes[2].pitch = 72
    /\ sink.played[1].notes[2].channel = 1
    /\ sink.played[1].loop

(* C25: for every pitch in 0..127 and every transpose in -127..127 the pitch the
   instrument sends for play_note(pitch) or stop_note(pitch) is
   max(0, min(127, pitch + transpose)): it is clamped into 0..127, never wrapped
   and never refused. *)
C25_TransposeClamps ==
    result.op \in {"play_note", "stop_note"} =>
        /\ Len(sink.note) = 1
        /\ sink.note[1].op = result.op
        /\ sink.note[1].pitch = Clamped(result.pitch, instruments["bass"].transpose)
        /\ sink.note[1].pitch \in 0..127

C25_Witness ==
    /\ result.op = "play_note"
    /\ result.pitch = 64
    /\ instruments["bass"].transpose = 100
    /\ sink.note[1].op = "play_note"
    /\ sink.note[1].pitch = 127

\* the size of the active set of a registered instrument
ActiveCount(name) ==
    IF instruments[name].present THEN Cardinality(instruments[name].active_sequences) ELSE 0

\* the ids in the active sets of the registered instruments
ActiveIds ==
    {sid \in SeqIds : \E name \in Names : /\ instruments[name].present
                                          /\ sid \in instruments[name].active_sequences}

C26_StopAllStep ==
    StopAllInstruments
        => /\ result'.value = ActiveCount("bass") + ActiveCount("lead")
           /\ \A name \in Names : instruments'[name].active_sequences = {}
           /\ \A name \in Names : instruments'[name].present = instruments[name].present
           /\ StoppedOnce(ActiveIds)

(* C26: stop_all_instruments returns the sum of the sizes the instruments' active
   sets had before it stopped anything; afterwards every active set is empty and
   the sequence player has seen one stop_sequence for each of those ids. *)
C26_StopAllInstruments == [][C26_StopAllStep]_vars

C26_Witness ==
    /\ result.op = "stop_all_instruments"
    /\ result.value = 3
    /\ instruments["bass"].present
    /\ instruments["lead"].present
    /\ \A sid \in 0..2 : sink.stopped[sid] = 1
    /\ \A name \in Names : instruments[name].active_sequences = {}

C27_RemoveRegistered ==
    \A name \in Names :
        (RemoveInstrument(name) /\ instruments[name].present)
            => /\ StoppedOnce(instruments[name].active_sequences)
               /\ \A sid \in instruments[name].active_sequences : ~active_sequences'[sid].present
               /\ ~instruments'[name].present
               /\ \A other \in Names \ {name} : instruments'[other] = instruments[other]
               /\ result'.value = TRUE

C27_RemoveUnknown ==
    \A name \in Names :
        (RemoveInstrument(name) /\ ~instruments[name].present)
            => /\ instruments' = instruments
               /\ sink' = sink
               /\ active_sequences' = active_sequences
               /\ result'.value = FALSE

(* C27: remove_instrument of a registered name has the sequence player stop
   every sequence in the instrument's active set, deletes the instrument and no
   other, and returns true; of an unknown name it returns false and changes
   neither the registry nor what the sequence player has seen. *)
C27_RemoveInstrument == [][C27_RemoveRegistered /\ C27_RemoveUnknown]_vars

C27_Witness ==
    /\ result.op = "remove_instrument"
    /\ result.value = TRUE
    /\ ~instruments["bass"].present
    /\ instruments["lead"].present
    /\ instruments["lead"].active_sequences = {1}
    /\ sink.stopped[0] = 1
    /\ sink.stopped[2] = 1
    /\ sink.stopped[1] = 0
    /\ ~Known(0) /\ ~Known(2) /\ Known(1)

\* the parameters are those of a MIDI instrument
InRange(channel, default_velocity, transpose) ==
    /\ channel \in 0..15
    /\ default_velocity \in 0..127
    /\ transpose \in -127..127

C28_CreateStep ==
    \A name \in Names, channel \in Channels, default_velocity \in Velocities,
       transpose \in Transposes :
        CreateInstrument(name, channel, default_velocity, transpose)
            => IF instruments[name].present \/ ~InRange(channel, default_velocity, transpose)
               THEN /\ instruments' = instruments
                    /\ result'.value = FALSE
               ELSE /\ instruments'[name] = [present |-> TRUE, channel |-> channel,
                                             default_velocity |-> default_velocity,
                                             transpose |-> transpose,
                                             active_sequences |-> {}]
                    /\ \A other \in Names \ {name} : instruments'[other] = instruments[other]
                    /\ result'.value = TRUE

(* C28: create_instrument returns false and leaves the registry as it is (the
   instrument registered under the name keeps its channel and configuration)
   when the name is registered already or when channel, velocity or transpose is
   out of range; otherwise it registers exactly one new instrument with those
   parameters and returns true. *)
C28_CreateInstrument == [][C28_CreateStep]_vars

C28_Witness ==
    /\ result.op = "create_instrument"
    /\ result.value = FALSE
    /\ instruments["bass"].present
    /\ instruments["bass"].channel = 1
    /\ instruments["bass"].active_sequences # {}
    /\ instruments["lead"].present
    /\ instruments["lead"].channel = 2

\* set_tempo to half the initial tempo, one second after the start
C29_HalvedAfterOneSecond ==
    /\ SetTempo(initial_bpm \div 2)
    /\ is_playing
    /\ bpm = initial_bpm
    /\ now = start_time_ns + Second

(* C29: with the transport started at 120 BPM and an event due two seconds
   after the start (beat 4), set_tempo(60) one second after the start leaves the
   event due three seconds after the start: the second that has passed plus the
   two beats that remain, at one second a beat. *)
C29_TempoChangeKeepsElapsed ==
    [][C29_HalvedAfterOneSecond =>
          \A i \in 1..Len(events) :
              events[i].timestamp_ns = start_time_ns + 2 * Second =>
                  \E j \in 1..Len(events') :
                      /\ events'[j].event_id = events[i].event_id
                      /\ events'[j].timestamp_ns = start_time_ns + 3 * Second]_vars

\* the callbacks that call the MIDI sink for a note of a scheduled sequence
SinkCalls == {c \in CallIds : kinds[c] \in {"note_on", "note_off"} /\ closures[c].seq >= 0}

\* send_note_on or send_note_off of this callback has reached the sink
Reached(c) == fired[c] # <<>>

\* the place of the callback's call in on(n1), off(n1), on(n2), off(n2), ...
Place(c) == 2 * closures[c].note - (IF kinds[c] = "note_on" THEN 1 ELSE 0)

\* c and d belong to one iteration of one sequence
SamePass(c, d) == closures[c].seq = closures[d].seq /\ closures[c].iter = closures[d].iter

\* a note's note-off never reaches the sink before its own note-on
C30_OffAfterOwnOn ==
    \A c, d \in SinkCalls :
        SamePass(c, d) /\ kinds[c] = "note_on" /\ Place(d) = Place(c) + 1 /\ Reached(d)
            => Reached(c)

\* the next note's note-on, which shares the note-off's fire time, never reaches
\* the sink before that note-off
C30_OffBeforeNextOn ==
    \A c, d \in SinkCalls :
        SamePass(c, d) /\ kinds[c] = "note_off" /\ Place(d) = Place(c) + 1 /\ Reached(d)
            => Reached(c)

(* C30: for a sequence built by from_tuple_list the MIDI sink sees the calls in
   the order on(n1), off(n1), on(n2), off(n2), ...: in every reachable state, a
   call that has reached the sink has every call before it in that order at
   the sink already, whatever the dispatcher and the pool threads do. *)
C30_SinkOrder ==
    \A c, d \in SinkCalls :
        SamePass(c, d) /\ Place(c) < Place(d) /\ Reached(d) => Reached(c)

(* C31: the event that re-invokes _schedule_iteration for a looping sequence is
   a critical one: wherever it waits in the queue its concurrent flag is false,
   and no pool thread ever calls its callback. *)
C31_ScheduleNextIsCritical ==
    /\ \A i \in 1..Len(events) :
           kinds[events[i].callback] = "schedule_next" => ~events[i].concurrent
    /\ \A c \in CallIds :
           kinds[c] = "schedule_next" => \A k \in 1..Len(fired[c]) : fired[c][k] # "worker"

\* max over the notes of start_beat + duration
Length(notes) ==
    CHOOSE m \in {notes[i].start_beat + notes[i].duration : i \in 1..Len(notes)} :
        \A i \in 1..Len(notes) : notes[i].start_beat + notes[i].duration <= m

\* the beat of callback c's note event, counted from the beat at which its
\* sequence was scheduled: k * sequence_length + start_beat (+ duration)
NoteBeat(c) ==
    LET s == active_sequences[closures[c].seq]
        n == s.notes[closures[c].note]
    IN closures[c].iter * Length(s.notes) + n.start_beat
           + (IF kinds[c] = "note_off" THEN n.duration ELSE 0)

\* the note events of scheduled sequences
NoteCalls == {c \in CallIds : kinds[c] \in {"note_on", "note_off"} /\ closures[c].seq >= 0}

\* every note event is asked for, and queued, at its beat
C32_AtItsBeat ==
    /\ \A t \in SeqThreads :
           sched[t].pc \in {"stamp", "push"} /\ sched[t].callback \in NoteCalls =>
               /\ sched[t].base = active_sequences[closures[sched[t].callback].seq].base
               /\ sched[t].beat = NoteBeat(sched[t].callback)
    /\ \A i \in 1..Len(events) :
           events[i].callback \in NoteCalls =>
               events[i].timestamp_ns =
                   start_time_ns
                       + BeatToNs(active_sequences[closures[events[i].callback].seq].base,
                                  NoteBeat(events[i].callback), bpm)

\* an iteration that has gone through its notes has asked for a note-on and a
\* note-off of every one of them
C32_EveryNote ==
    \A t \in SeqThreads :
        seqrun[t].pc = "loop" /\ is_playing =>
            \A n \in 1..Len(active_sequences[seqrun[t].sid].notes) :
                \A kind \in {"note_on", "note_off"} :
                    \E c \in NoteCalls :
                        /\ kinds[c] = kind
                        /\ closures[c].seq = seqrun[t].sid
                        /\ closures[c].iter = seqrun[t].iter
                        /\ closures[c].note = n

(* C32: for every iteration k of a scheduled sequence and every note n, the
   note-on is scheduled at beat base + k * sequence_length + n.start_beat and the
   note-off n.duration later, where base is the transport's current beat when
   schedule_sequence was called and sequence_length the largest start_beat +
   duration; the iterations do not drift. *)
C32_NotesOnTheGrid == C32_AtItsBeat /\ C32_EveryNote

\* the second iteration of a looping sequence has had its note-off queued, a
\* sequence length after the first
C32_Witness ==
    \E i \in 1..Len(events) :
        /\ events[i].callback \in NoteCalls
        /\ kinds[events[i].callback] = "note_off"
        /\ closures[events[i].callback].iter = 1
        /\ active_sequences[closures[events[i].callback].seq].base > 0

\* the events that iteration `iter` of sequence `sid` has asked for
AskedBy(sid, iter) ==
    {c \in CallIds : /\ closures[c].seq = sid
                     /\ \/ kinds[c] \in {"note_on", "note_off"} /\ closures[c].iter = iter
                        \/ kinds[c] = "schedule_next" /\ closures[c].iter = iter + 1}

\* once a sequence is gone no iteration of it begins, and no event is asked for
\* but by an iteration that had begun before
C33_NothingNew ==
    \A sid \in SeqIds :
        ~active_sequences[sid].present /\ next_sequence_id > sid =>
            /\ active_sequences'[sid].runs = active_sequences[sid].runs
            /\ \A c \in CallIds :
                   closures'[c] # closures[c] /\ closures'[c].seq = sid =>
                       \E iter \in 0..(active_sequences[sid].runs - 1) :
                           c \in AskedBy(sid, iter)'

\* an iteration that has begun on a running transport goes through all its
\* notes, removal or not
C33_WholeIteration ==
    \A t \in SeqThreads :
        seqrun[t].pc \in {"loop", "ret"} /\ seqrun[t].op # "schedule_note" /\ is_playing =>
            Cardinality({c \in AskedBy(seqrun[t].sid, seqrun[t].iter) :
                            kinds[c] \in {"note_on", "note_off"}})
                = 2 * Len(active_sequences[seqrun[t].sid].notes)

(* C33: once remove_sequence or clear_all_sequences has taken a sequence away,
   the schedule_next callback that is still pending begins no iteration when it
   fires: it asks for no note event and for no further schedule_next, so the
   chain ends; a callback that is already inside an iteration when the removal
   happens asks for all the events of that iteration. *)
C33_RemovalEndsChain == [][C33_NothingNew]_vars /\ []C33_WholeIteration

\* the schedule_next callback of a removed sequence has been called by the pool
\* thread and has come back without beginning the iteration it was made for
C33_Witness ==
    \E c \in CallIds :
        /\ kinds[c] = "schedule_next"
        /\ fired[c] = <<"worker">>
        /\ seqrun["worker"].pc = "idle"
        /\ ~active_sequences[closures[c].seq].present
        /\ active_sequences[closures[c].seq].runs = closures[c].iter

\* the critical events whose callback has been called and has not returned: in
\* the dispatcher, or in a thread that scheduled a past-due event
InProgress ==
    {[callback |-> disp.events_to_execute[disp.idx].callback,
      timestamp_ns |-> disp.events_to_execute[disp.idx].timestamp_ns] :
         x \in {y \in {0} : disp.pc = "hung" /\ ~disp.events_to_execute[disp.idx].concurrent}}
    \cup {[callback |-> sched[t].callback,
           timestamp_ns |-> start_time_ns + BeatToNs(sched[t].base, sched[t].beat, bpm)] :
              t \in {u \in Threads : sched[u].pc = "hung" /\ ~sched[u].concurrent}}

\* the events whose callback is about to be called, by the dispatcher or by the
\* thread that finds its event past due
AboutToRun ==
    {[callback |-> disp.events_to_execute[disp.idx].callback,
      timestamp_ns |-> disp.events_to_execute[disp.idx].timestamp_ns] :
         x \in {y \in {0} : disp.pc = "exec" /\ disp.idx <= Len(disp.events_to_execute)}}
    \cup {[callback |-> sched[t].callback,
           timestamp_ns |-> start_time_ns + BeatToNs(sched[t].base, sched[t].beat, bpm)] :
              t \in {u \in Threads : sched[u].pc = "stamp"}}

\* no two critical callbacks are in progress at the same time
C34_OneAtATime == Cardinality(InProgress) <= 1

\* no callback starts while a critical callback with an earlier fire time is in
\* progress
C34_InFireOrder ==
    \A d \in AboutToRun :
        fired'[d.callback] # fired[d.callback] =>
            \A c \in InProgress : ~(c.timestamp_ns < d.timestamp_ns)

(* C34: critical callbacks complete in fire order: while a critical callback is
   in progress no callback of an event with a later fire time starts, and no two
   critical callbacks of one transport are ever in progress at the same time. *)
C34_CriticalInOrder == []C34_OneAtATime /\ [][C34_InFireOrder]_vars

(* C35: set_tempo changes only the fire time of the pending events: every event
   it reschedules is in the queue afterwards with the callback, the event_id and
   the concurrent flag it had, so a critical event stays critical. *)
C35_TempoKeepsFlags ==
    [][(\E b \in Bpms : SetTempo(b)) /\ is_playing =>
          \A i \in 1..Len(events) :
              IsFuture(events[i], now) =>
                  \E j \in 1..Len(events') :
                      /\ events'[j].callback = events[i].callback
                      /\ events'[j].event_id = events[i].event_id
                      /\ events'[j].concurrent = events[i].concurrent]_vars

\* the calls of a callback whose event was given this id
Invocations(event_id) ==
    {<<c, k>> \in CallIds \X (1..(MaxCalls + 1)) : calls[c].id = event_id /\ k <= Len(fired[c])}

(* C36: the callback of a scheduled event is called at most once, whether the
   event runs past due in its caller or is drained by the dispatcher, and
   whatever remove_event, set_tempo, stop, start and reset do in between: no
   event id ever has two calls of a callback, and no callback that was refused
   an id is called. *)
C36_AtMostOnce ==
    /\ \A event_id \in 0..(MaxCalls - 1) : Cardinality(Invocations(event_id)) <= 1
    /\ \A c \in CallIds : calls[c].id = -1 => fired[c] = <<>>

\* after a tempo change: one event has run past due in its caller, another has
\* been drained and called, each once
C36_Witness ==
    /\ bpm # initial_bpm
    /\ \E c, d \in CallIds :
           /\ calls[c].st = "immediate" /\ Len(fired[c]) = 1
           /\ calls[d].st = "drained" /\ Len(fired[d]) = 1
    /\ \E c \in CallIds : calls[c].st \in {"removed", "cleared", "dropped"}

(* C37: the dispatcher never waits past the fire time of the earliest pending
   event: whenever the clock has reached the fire time of a queued event, the
   dispatcher is not in a wait that ends later than now. *)
C37_NoOversleep ==
    disp.pc = "wait" =>
        \A i \in 1..Len(events) : events[i].timestamp_ns <= now => disp.wake <= now

(* C38: a schedule_event call that races with stop() leaves no event behind:
   whenever stop() has returned and the transport has not been started again,
   the queue is empty. *)
C38_NothingLeftBehind ==
    (ctl.pc = "idle" /\ ~is_playing) => events = <<>>

(* C39: on a transport that keeps running, every event that schedule_event has
   accepted and queued is eventually fired: its callback is called, whatever
   schedule_event and set_tempo calls come in between, as long as the clock, the
   dispatcher and the pool threads keep running. *)
C39_EventuallyFired ==
    \A c \in CallIds : (calls[c].st = "queued") ~> (fired[c] # <<>>)

\* schedule_sequence has returned: every id given out has its state, and the
\* iteration of a looping sequence has been counted
C40_Recorded ==
    seqrun["ctl"].pc = "idle" =>
        \A sid \in SeqIds :
            sid < next_sequence_id =>
                /\ active_sequences[sid].present
                /\ active_sequences[sid].current_iteration
                       = (IF active_sequences[sid].loop THEN 1 ELSE 0)

\* nothing is queued, handed to the pool or called, and no callback of the
\* sequence has been kept by the transport
C40_Silent ==
    /\ events = <<>>
    /\ pool_pending = {}
    /\ \A c \in CallIds : fired[c] = <<>> /\ closures[c] = NoClosure
    /\ \A c \in CallIds : c <= ncalls => calls[c].st = "rejected"

(* C40: schedule_sequence on a transport that is not running gives out a new
   sequence id and records the state (counting the iteration of a looping
   sequence), but queues no event and calls nothing; nothing of the sequence is
   played after a later start(). *)
C40_ScheduledWhileStopped == C40_Recorded /\ C40_Silent

\* a looping sequence scheduled before start(), and the transport running since
C40_Witness ==
    /\ is_playing
    /\ now > start_time_ns
    /\ disp.pc = "loop"
    /\ seqrun["ctl"].pc = "idle"
    /\ next_sequence_id = 1
    /\ active_sequences[0].loop
    /\ ncalls >= 3

====
